---- MODULE Spec2Model ----
(***************************************************************************)
(* Gas-exchange core of SGD2718/ColonySimulator:                           *)
(*   - AirGraph / AirValve over the two-species compartments the valve     *)
(*     calls into (src/gasses/air_graph.py, src/gasses/air_valve.py,       *)
(*     src/o2sys/air_compartment.py)                                       *)
(*   - AirCompartment / Atmosphere   (src/gasses/air_compartment.py)       *)
(*   - AirTank                       (src/gasses/airtank.py)               *)
(*                                                                         *)
(* Numbers.  The valve and the o2sys compartments work on scalar floats;   *)
(* they are modelled on an integer grid, math.log and math.sqrt by integer *)
(* approximations that keep the sign, the zero and the domain errors of    *)
(* the library functions.  The numpy vectors of the compartment and tank   *)
(* are modelled by exact rationals <<n, d>> (d > 0, lowest terms), so      *)
(* every division of fill_to_capacity is the exact quotient.  Gas          *)
(* constants are in units of 100 J/(kg K), rounded, to keep products in    *)
(* the integer range of TLC.                                               *)
(***************************************************************************)
EXTENDS Integers, Sequences, FiniteSets, TLC

VARIABLES
    temperature,   \* AirGraph.temperature (also the parent temperature of the tank)
    comp,          \* o2sys AirCompartment objects: volume, o2_density, co2_density
    valve,         \* AirValve objects
    pc,            \* position in AirGraph._update_airflow: "idle", "compute", "apply"
    idx,           \* index of the valve the running loop is at
    tick_dt,       \* dt argument of the running _update_airflow call
    snap,          \* compartments as they were when the running tick started
    computed,      \* per valve: compute_flux calls in the running/last tick
    applied,       \* per valve: apply_flux calls in the running/last tick
    ticks,         \* number of _update_airflow calls started
    err,           \* exception that ended the program, or "none"
    room,          \* gasses AirCompartment: volume, densities
    atm,           \* gasses Atmosphere: temperature, densities (inherited array)
    tank,          \* AirTank: volume, max_pressure, densities, flux (ledger)
    source,        \* the caller's source array handed to fill_to_capacity
    last,          \* record of the last call: operation, arguments, result
    hist,          \* bookkeeping over the run (originals, cumulative sums)
    ops,           \* number of calls made so far
    power,         \* PowerSource: electrical_energy, thermal_energy
    electrolyzer,  \* Electrolyzer: o2_mass_released, h2_mass_released
    bed,           \* AmineSwingBed: phase, time in phase, cycle times, buffers
    chem           \* the Gas objects of the four species: their tables

vars == <<temperature, comp, valve, pc, idx, tick_dt, snap, computed, applied,
          ticks, err, room, atm, tank, source, last, hist, ops,
          power, electrolyzer, bed, chem>>

graphVars == <<comp, valve, pc, idx, tick_dt, snap, computed, applied, ticks>>
vesselVars == <<room, atm, tank, source>>
plantVars == <<power, electrolyzer, bed, chem>>

-----------------------------------------------------------------------------
(* Bounds of the model *)

MaxTicks == 2
MaxOps == 3
MaxCalls == 2
MaxPlantCalls == 3
MaxUpdates == 2

-----------------------------------------------------------------------------
(* Integer helpers *)

Abs(x) == IF x < 0 THEN -x ELSE x

Sign(x) == IF x < 0 THEN -1 ELSE IF x > 0 THEN 1 ELSE 0

\* quotient rounded toward zero
Quot(a, b) == Sign(a) * Sign(b) * (Abs(a) \div Abs(b))

RECURSIVE GCD(_, _)
GCD(a, b) == IF b = 0 THEN a ELSE GCD(b, a % b)

\* floor of the square root of n >= 0
ISqrt(n) == CHOOSE k \in 0..(n + 1) : k * k <= n /\ (k + 1) * (k + 1) > n

\* 100 * ln(num / den) for num, den > 0: first term of the artanh series,
\* with the sign of the logarithm and 0 exactly at num = den
LnCenti(num, den) == Quot(200 * (num - den), num + den)

-----------------------------------------------------------------------------
(* The o2sys compartments and the valve *)

CompIds == {1, 2, 3}
ValveIds == {1, 2}
NumValves == Cardinality(ValveIds)

\* AirValve.O2_GAS_CONSTANT, AirValve.CO2_GAS_CONSTANT (259.82, 188.92 J/kg K)
O2_GAS_CONSTANT == 3
CO2_GAS_CONSTANT == 2

\* AirValve.open
valve_open(v) == [v EXCEPT !.is_open = TRUE]

\* AirValve.close
valve_close(v) == [v EXCEPT !.is_open = FALSE]

\* a set_state that opens the valve whatever it is given
valve_set_state_opening(v, state) == [v EXCEPT !.is_open = TRUE]

\* AirValve.set_state
valve_set_state(v, state) == [v EXCEPT !.is_open = state]

\* AirValve.is_open
valve_is_open(v) == v.is_open

\* AirValve.get_area
get_area(v) == IF v.is_open THEN v.open_area ELSE v.closed_area

\* the nested function density_flux of compute_flux:
\*   rho1 * area / volume * math.sqrt(two_rt * math.log(rho2 / rho1))
\* rho2 / rho1 raises ZeroDivisionError, math.log of a ratio <= 0 and
\* math.sqrt of a negative number raise ValueError
density_flux(rho1, rho2, two_rt, area, volume) ==
    IF rho1 = 0 THEN [err |-> "ZeroDivisionError", val |-> 0]
    ELSE IF Sign(rho2) * Sign(rho1) <= 0 THEN [err |-> "ValueError", val |-> 0]
    ELSE LET x == two_rt * LnCenti(Abs(rho2), Abs(rho1))
         IN  IF x < 0 THEN [err |-> "ValueError", val |-> 0]
             ELSE [err |-> "none",
                   val |-> Quot(rho1 * area * ISqrt(x), 10 * volume)]

\* one species of compute_flux: the if/else around the two density_flux calls
species_flux(d1, d2, two_rt, area, vol1, vol2) ==
    IF d1 > d2
    THEN density_flux(d1, d2, two_rt, area, vol1)
    ELSE LET r == density_flux(d2, d1, two_rt, area, vol2)
         IN  [err |-> r.err, val |-> -r.val]

\* a compute_flux without the early return on a zero area
compute_flux_without_shortcut(v, t, cs) ==
    LET area == get_area(v)
        c1 == cs[v.compartment1]
        c2 == cs[v.compartment2]
        o2 == species_flux(c1.o2_density, c2.o2_density,
                           2 * O2_GAS_CONSTANT * t, area, c1.volume, c2.volume)
        co2 == species_flux(c1.co2_density, c2.co2_density,
                            2 * CO2_GAS_CONSTANT * t, area, c1.volume, c2.volume)
    IN  IF o2.err # "none"
        THEN [valve |-> v, err |-> o2.err]
        ELSE IF co2.err # "none"
        THEN [valve |-> [v EXCEPT !.o2_flux = o2.val], err |-> co2.err]
        ELSE [valve |-> [v EXCEPT !.o2_flux = o2.val, !.co2_flux = co2.val],
              err |-> "none"]

\* AirValve.compute_flux: the valve after the call and the exception raised
compute_flux(v, t, cs) ==
    LET area == get_area(v)
        c1 == cs[v.compartment1]
        c2 == cs[v.compartment2]
        o2 == species_flux(c1.o2_density, c2.o2_density,
                           2 * O2_GAS_CONSTANT * t, area, c1.volume, c2.volume)
        co2 == species_flux(c1.co2_density, c2.co2_density,
                            2 * CO2_GAS_CONSTANT * t, area, c1.volume, c2.volume)
    IN  IF area = 0
        THEN [valve |-> [v EXCEPT !.o2_flux = 0, !.co2_flux = 0], err |-> "none"]
        ELSE IF o2.err # "none"
        THEN [valve |-> v, err |-> o2.err]
        ELSE IF co2.err # "none"
        THEN [valve |-> [v EXCEPT !.o2_flux = o2.val], err |-> co2.err]
        ELSE [valve |-> [v EXCEPT !.o2_flux = o2.val, !.co2_flux = co2.val],
              err |-> "none"]

\* o2sys AirCompartment.apply_flux
o2sys_apply_flux(c, o2_density_flux, co2_density_flux, dt) ==
    [c EXCEPT !.o2_density = @ + o2_density_flux * dt,
              !.co2_density = @ + co2_density_flux * dt]

\* AirValve.apply_flux without the `if self._is_open` guard
valve_apply_flux_unguarded(v, cs, dt) ==
    LET cs1 == [cs EXCEPT ![v.compartment1] =
                   o2sys_apply_flux(@, v.o2_flux, v.co2_flux, dt)]
    IN  [cs1 EXCEPT ![v.compartment2] =
                   o2sys_apply_flux(@, -v.o2_flux, -v.co2_flux, dt)]

\* AirValve.apply_flux: the compartments after the call
valve_apply_flux(v, cs, dt) ==
    IF v.is_open
    THEN LET cs1 == [cs EXCEPT ![v.compartment1] =
                        o2sys_apply_flux(@, v.o2_flux, v.co2_flux, dt)]
         IN  [cs1 EXCEPT ![v.compartment2] =
                        o2sys_apply_flux(@, -v.o2_flux, -v.co2_flux, dt)]
    ELSE cs

-----------------------------------------------------------------------------
(* AirGraph._update_airflow, one step per loop iteration *)

\* a single loop that applies each flux right after computing it
compute_loop_body_applying(v, t, cs, dt) ==
    LET r == compute_flux(v, t, cs)
    IN  [valve |-> r.valve,
         comps |-> IF r.err = "none" THEN valve_apply_flux(r.valve, cs, dt) ELSE cs,
         err |-> r.err]

\* body of the first loop (air_graph.py lines 59-60): compute_flux of one
\* valve; the compartments are not touched
compute_loop_body(v, t, cs, dt) ==
    LET r == compute_flux(v, t, cs)
    IN  [valve |-> r.valve, comps |-> cs, err |-> r.err]

\* a second loop that works out the flux again from the densities it finds
apply_loop_body_recomputing(v, cs, dt) ==
    LET r == compute_flux(v, temperature, cs)
    IN  IF r.err = "none" THEN valve_apply_flux(r.valve, cs, dt) ELSE cs

\* body of the second loop (air_graph.py lines 62-63)
apply_loop_body(v, cs, dt) == valve_apply_flux(v, cs, dt)

\* the second loop run over the valve list vs in the order given by order
RECURSIVE apply_in_order(_, _, _, _)
apply_in_order(order, vs, cs, dt) ==
    IF order = <<>> THEN cs
    ELSE apply_in_order(Tail(order), vs, apply_loop_body(vs[Head(order)], cs, dt), dt)

\* AirGraph takes any float as temperature and _update_temperature adds
\* q_in / sum(m c) without a floor, with subsystems returning negative heat:
\* the temperature is not sign-constrained
Temperatures == {-1, 0, 1}
Densities == {0, 1, 2}
Co2Densities == {1, 2}
VolumeLayouts == {<<1, 1, 1>>, <<1, 2, 2>>}
Areas == {0, 1}
Dts == {1, 2}

NoCounts == [v \in ValveIds |-> 0]

\* AirValve.__init__: closed, zero flux
NewValve(open_area, closed_area, c1, c2) ==
    [open_area |-> open_area, closed_area |-> closed_area, is_open |-> FALSE,
     o2_flux |-> 0, co2_flux |-> 0, compartment1 |-> c1, compartment2 |-> c2]

\* Door.UNSEALED_PERIMETER_GAP (0.01 m), in centimetres
UNSEALED_PERIMETER_GAP == 1

\* Door.__init__: an AirValve over dims = (width, height), unlocked
NewDoor(is_airtight, dims, room1, room2) ==
    LET base == NewValve(dims[1] * dims[2],
                         IF is_airtight
                         THEN dims[1] * dims[2]
                                 - (dims[1] - UNSEALED_PERIMETER_GAP)
                                     * (dims[2] - 2 * UNSEALED_PERIMETER_GAP)
                         ELSE 0,
                         room1, room2)
    IN  [open_area |-> base.open_area, closed_area |-> base.closed_area,
         is_open |-> base.is_open, o2_flux |-> base.o2_flux,
         co2_flux |-> base.co2_flux, compartment1 |-> base.compartment1,
         compartment2 |-> base.compartment2,
         is_airtight |-> is_airtight, is_locked |-> FALSE]

\* a Door.open without the lock test
door_open_ignoring_lock(d) == valve_open(d)

\* Door.open
door_open(d) == IF ~d.is_locked THEN valve_open(d) ELSE d

\* Door.close
door_close(d) == IF ~d.is_locked THEN valve_close(d) ELSE d

\* a Door.lock without the test of the door's state
door_lock_unconditional(d) == [d EXCEPT !.is_locked = TRUE]

\* Door.lock
door_lock(d) == IF ~d.is_open THEN [d EXCEPT !.is_locked = TRUE] ELSE d

\* Door.unlock
door_unlock(d) == [d EXCEPT !.is_locked = FALSE]

\* o2sys AirCompartment.__init__ followed by the pressurisation that gives
\* the compartment its gas
NewCompartment(volume, o2, co2) ==
    [volume |-> volume, o2_density |-> o2, co2_density |-> co2]

\* AirValve.open / AirValve.close / AirValve.set_state
ValveSetState(v, state) ==
    /\ pc = "idle" /\ err = "none"
    /\ valve[v].is_open # state
    /\ valve' = [valve EXCEPT ![v] = valve_set_state(@, state)]
    /\ UNCHANGED <<plantVars, temperature, comp, pc, idx, tick_dt, snap, computed, applied,
                   ticks, err, vesselVars, last, hist, ops>>

\* entry of AirGraph._update_airflow(dt)
TickStart(dt) ==
    /\ pc = "idle" /\ err = "none"
    /\ ticks < MaxTicks
    /\ pc' = "compute" /\ idx' = 1 /\ tick_dt' = dt
    /\ snap' = comp
    /\ computed' = NoCounts /\ applied' = NoCounts
    /\ ticks' = ticks + 1
    /\ UNCHANGED <<plantVars, temperature, comp, valve, err, vesselVars, last, hist, ops>>

\* one iteration of `for valve in self.valves: valve.compute_flux(...)`;
\* an exception leaves the method and ends the program
ComputeStep ==
    /\ pc = "compute" /\ err = "none"
    /\ LET r == compute_loop_body(valve[idx], temperature, comp, tick_dt)
       IN  /\ valve' = [valve EXCEPT ![idx] = r.valve]
           /\ comp' = r.comps
           /\ err' = r.err
           /\ computed' = [computed EXCEPT ![idx] = @ + 1]
           /\ IF r.err # "none"
              THEN pc' = "idle" /\ idx' = idx
              ELSE IF idx < NumValves
              THEN pc' = "compute" /\ idx' = idx + 1
              ELSE pc' = "apply" /\ idx' = 1
    /\ UNCHANGED <<plantVars, temperature, tick_dt, snap, applied, ticks, vesselVars,
                   last, hist, ops>>

\* one iteration of `for valve in self.valves: valve.apply_flux(dt)`
ApplyStep ==
    /\ pc = "apply" /\ err = "none"
    /\ comp' = apply_loop_body(valve[idx], comp, tick_dt)
    /\ applied' = [applied EXCEPT ![idx] = @ + 1]
    /\ IF idx < NumValves
       THEN pc' = "apply" /\ idx' = idx + 1
       ELSE pc' = "idle" /\ idx' = 1
    /\ UNCHANGED <<plantVars, temperature, valve, tick_dt, snap, computed, ticks, err,
                   vesselVars, last, hist, ops>>

-----------------------------------------------------------------------------
(* Exact rationals <<n, d>> and species vectors *)

Species == 1..4      \* air.O2_INDEX .. air.H2O_INDEX, shifted by one

Rat(n, d) ==
    LET g == GCD(Abs(n), Abs(d))
    IN  IF n = 0 THEN <<0, 1>> ELSE <<Sign(d) * (n \div g), Abs(d) \div g>>

FromInt(n) == <<n, 1>>
Zero == <<0, 1>>
RAdd(a, b) == Rat(a[1] * b[2] + b[1] * a[2], a[2] * b[2])
RSub(a, b) == Rat(a[1] * b[2] - b[1] * a[2], a[2] * b[2])
RMul(a, b) == Rat(a[1] * b[1], a[2] * b[2])
RDiv(a, b) == Rat(a[1] * b[2], a[2] * b[1])
RLe(a, b) == a[1] * b[2] <= b[1] * a[2]
RLt(a, b) == a[1] * b[2] < b[1] * a[2]
RMin(a, b) == IF RLe(a, b) THEN a ELSE b

\* float('inf'), the volume of the Atmosphere
Inf == <<1, 0>>

\* x / volume as the floats give it: a finite x over inf is 0
DivVolume(x, volume) == IF volume = Inf THEN Zero ELSE RDiv(x, volume)

IVec(t) == [i \in Species |-> FromInt(t[i])]
VZero == [i \in Species |-> Zero]
VAdd(u, w) == [i \in Species |-> RAdd(u[i], w[i])]
VSub(u, w) == [i \in Species |-> RSub(u[i], w[i])]
VScale(u, r) == [i \in Species |-> RMul(u[i], r)]
VDivVolume(u, volume) == [i \in Species |-> DivVolume(u[i], volume)]
VSum(u) == RAdd(RAdd(u[1], u[2]), RAdd(u[3], u[4]))
VDot(u, w) == VSum([i \in Species |-> RMul(u[i], w[i])])
VNonNeg(u) == \A i \in Species : RLe(Zero, u[i])

\* air.GAS_CONSTANTS = [O2, CO2, N2, H2O] (259.8, 188.9, 296.8, 461.5 J/kg K)
GAS_CONSTANTS == IVec(<<3, 2, 3, 5>>)

-----------------------------------------------------------------------------
(* gasses AirCompartment *)

\* kwargs.get('filter', np.ones((4,), dtype=bool)) without a filter argument
DefaultFilter == [i \in Species |-> TRUE]

\* AirCompartment.__init__: the densities start at zero
NewAirCompartment(volume) ==
    [volume |-> volume, densities |-> VZero, filter |-> DefaultFilter]

\* AirCompartment.get_density(index) on the grid of the valve's scalars
compartment_get_density(c, i) == Quot(c.densities[i][1], c.densities[i][2])

\* what a valve reads from a gasses compartment: get_volume, get_o2_density,
\* get_co2_density
compartment_valve_side(c) ==
    [volume |-> Quot(c.volume[1], c.volume[2]),
     o2_density |-> compartment_get_density(c, 1),
     co2_density |-> compartment_get_density(c, 2)]

\* the valve's call compartment.apply_flux(o2_flux, co2_flux, dt) on a gasses
\* compartment, whose signature is apply_flux(self, fluxes, dt=0.033,
\* **kwargs): the third positional argument is a TypeError, raised before
\* the body runs
compartment_apply_flux_scalars(c, o2_flux, co2_flux, dt) ==
    [obj |-> c, err |-> "TypeError"]

\* AirCompartment.apply_flux: the in-place += comes first, the assert after
\* it, so a failed assert leaves the new densities in the object
compartment_apply_flux(c, fluxes, dt, mode) ==
    LET d == IF mode = "density"
             THEN VAdd(c.densities, VScale(fluxes, dt))
             ELSE VAdd(c.densities, VDivVolume(VScale(fluxes, dt), c.volume))
    IN  [obj |-> [c EXCEPT !.densities = d],
         err |-> IF VNonNeg(d) THEN "none" ELSE "AssertionError"]

\* AirCompartment.add_gas
compartment_add_gas(c, amounts, mode) ==
    LET d == IF mode = "density"
             THEN VAdd(c.densities, amounts)
             ELSE VAdd(c.densities, VDivVolume(amounts, c.volume))
    IN  [obj |-> [c EXCEPT !.densities = d],
         err |-> IF VNonNeg(d) THEN "none" ELSE "AssertionError"]

\* AirCompartment.get_pressures / get_pressure(None)
compartment_get_pressures(c, t) ==
    [i \in Species |-> RMul(FromInt(t), RMul(GAS_CONSTANTS[i], c.densities[i]))]

compartment_get_pressure(c, t) == RMul(FromInt(t), VDot(GAS_CONSTANTS, c.densities))

-----------------------------------------------------------------------------
(* gasses Atmosphere *)

\* Atmosphere.DENSITIES in mg/m^3 (O2_DENSITY .. H2O_DENSITY), Atmosphere.DENSITY
\* and Atmosphere.PRESSURE
ATM_DENSITIES == IVec(<<16, 15896, 287, 2>>)
ATM_DENSITY == FromInt(16200)
ATM_PRESSURE == FromInt(610)

\* Atmosphere.__init__
NewAtmosphere(t) ==
    [volume |-> Inf, densities |-> VZero, filter |-> DefaultFilter,
     temperature |-> t]

\* Atmosphere without its apply_flux override: AirCompartment.apply_flux runs
atmosphere_apply_flux_inherited(a, fluxes, dt, mode) ==
    compartment_apply_flux(a, fluxes, dt, mode)

\* Atmosphere.apply_flux: pass
atmosphere_apply_flux(a, fluxes, dt, mode) == [obj |-> a, err |-> "none"]

\* Atmosphere.add_gas: pass
atmosphere_add_gas(a, masses, mode) == [obj |-> a, err |-> "none"]

\* Atmosphere.get_densities / get_density(i)
atmosphere_get_densities(a) == ATM_DENSITIES

\* Atmosphere.get_density(None)
atmosphere_get_density(a) == ATM_DENSITY

\* Atmosphere.get_pressures / get_pressure(i)
atmosphere_get_pressures(a) ==
    [i \in Species |->
        RMul(FromInt(a.temperature), RMul(GAS_CONSTANTS[i], ATM_DENSITIES[i]))]

\* Atmosphere.get_pressure(None)
atmosphere_get_pressure(a) == ATM_PRESSURE

-----------------------------------------------------------------------------
(* AirTank *)

\* AirTank.__init__
NewAirTank(volume, max_pressure) ==
    [volume |-> volume, max_pressure |-> max_pressure,
     densities |-> VZero, filter |-> DefaultFilter, flux |-> VZero]


\* a read_flux that returns the ledger and leaves it in place
tank_read_flux_keeping(tk) == [obj |-> tk, ret |-> tk.flux]

\* AirTank.read_flux
tank_read_flux(tk) == [obj |-> [tk EXCEPT !.flux = VZero], ret |-> tk.flux]


\* an apply_flux whose ledger receives the density change, delta * dt
tank_apply_flux_scaled(tk, fluxes, dt, mode) ==
    LET delta == IF mode = "density" THEN fluxes ELSE VDivVolume(fluxes, tk.volume)
        d == VAdd(tk.densities, VScale(delta, dt))
    IN  [obj |-> [tk EXCEPT !.densities = d,
                            !.flux = VAdd(tk.flux, VScale(delta, dt))],
         err |-> IF VNonNeg(d) THEN "none" ELSE "AssertionError"]

\* AirTank.apply_flux: densities and ledger are updated before the assert
tank_apply_flux(tk, fluxes, dt, mode) ==
    LET delta == IF mode = "density" THEN fluxes ELSE VDivVolume(fluxes, tk.volume)
        d == VAdd(tk.densities, VScale(delta, dt))
    IN  [obj |-> [tk EXCEPT !.densities = d, !.flux = VAdd(tk.flux, delta)],
         err |-> IF VNonNeg(d) THEN "none" ELSE "AssertionError"]

\* the projection shared by is_full and fill_to_capacity:
\* np.sum(R * (self.densities + self._flux * dt))
tank_projected_S(tk, dt) ==
    VDot(GAS_CONSTANTS, VAdd(tk.densities, VScale(tk.flux, dt)))

\* projected_pressure of AirTank.is_full
tank_projected_pressure(tk, dt, t) == RMul(FromInt(t), tank_projected_S(tk, dt))


\* an is_full that needs the projection to exceed max_pressure
tank_is_full_strict(tk, dt, t) ==
    RLt(tk.max_pressure, tank_projected_pressure(tk, dt, t))

\* AirTank.is_full
tank_is_full(tk, dt, t) ==
    RLe(tk.max_pressure, tank_projected_pressure(tk, dt, t))

\* step 6 without the cap at what the source holds
fill_M_add_uncapped(M_req, total_source) == M_req

\* step 6 of fill_to_capacity: M_add = min(M_req, total_source)
fill_M_add(M_req, total_source) == RMin(M_req, total_source)

\* an early return that clears the ledger on its way out
fill_early_return_resetting(tk, src, exit) ==
    [obj |-> [tk EXCEPT !.flux = VZero], source |-> src, ret |-> VZero,
     exit |-> exit, err |-> "none"]

\* the three early returns of fill_to_capacity (airtank.py lines 76-78,
\* 81-83, 91-93): `return np.zeros_like(source)` with nothing written
fill_early_return(tk, src, exit) ==
    [obj |-> tk, source |-> src, ret |-> VZero, exit |-> exit, err |-> "none"]

\* AirTank.fill_to_capacity: the tank and the source after the call, the
\* returned array, the exit taken and the exception raised
tank_fill_to_capacity(tk, src, dt, t) ==
    LET S_current == tank_projected_S(tk, dt)
        S_max == RDiv(tk.max_pressure, FromInt(t))
        delta_S == RSub(S_max, S_current)
        total_source == VSum(src)
        ratios == [i \in Species |-> RDiv(src[i], total_source)]
        denom_raw == VDot(GAS_CONSTANTS, ratios)
        M_req == RDiv(RMul(delta_S, tk.volume), denom_raw)
        M_add == fill_M_add(M_req, total_source)
        delta_mass == VScale(ratios, M_add)
    IN  IF t = 0
        THEN [obj |-> tk, source |-> src, ret |-> VZero, exit |-> "raise",
              err |-> "ZeroDivisionError"]
        ELSE IF RLe(delta_S, Zero) THEN fill_early_return(tk, src, "full")
        ELSE IF RLe(total_source, Zero) THEN fill_early_return(tk, src, "no_source")
        ELSE IF RLe(denom_raw, Zero) THEN fill_early_return(tk, src, "no_pressure")
        ELSE [obj |-> [tk EXCEPT
                          !.densities = VAdd(@, VDivVolume(delta_mass, tk.volume)),
                          !.flux = VZero],
              source |-> VSub(src, delta_mass),
              ret |-> delta_mass,
              exit |-> IF RLe(M_req, total_source) THEN "filled" ELSE "drained",
              err |-> "none"]

-----------------------------------------------------------------------------
(* PowerSource (src/power_source.py); energies are exact rationals *)

RMax(a, b) == IF RLe(b, a) THEN a ELSE b

\* PowerSource.__init__
NewPowerSource == [electrical_energy |-> Zero, thermal_energy |-> Zero]

\* PowerSource.charge
power_charge(p, pw, dt) ==
    [p EXCEPT !.electrical_energy = RAdd(@, RMul(pw, dt))]

\* PowerSource.heat
power_heat(p, pw, dt) ==
    [p EXCEPT !.thermal_energy = RAdd(@, RMul(pw, dt))]

\* PowerSource.consume_electricity: min in mode "power", max in any other
power_consume_electricity(p, draw, dt, mode) ==
    LET delta_energy == IF mode = "power"
                        THEN RMin(RMul(draw, dt), p.electrical_energy)
                        ELSE RMax(draw, p.electrical_energy)
    IN  [obj |-> [p EXCEPT !.electrical_energy = RSub(@, delta_energy)],
         ret |-> delta_energy]

\* PowerSource.consume_heat
power_consume_heat(p, draw, dt, mode) ==
    LET delta_energy == IF mode = "power"
                        THEN RMin(RMul(draw, dt), p.thermal_energy)
                        ELSE RMin(draw, p.thermal_energy)
    IN  [obj |-> [p EXCEPT !.thermal_energy = RSub(@, delta_energy)],
         ret |-> delta_energy]

-----------------------------------------------------------------------------
(* Gas (src/gasses/chemical.py): the specific-heat table of a species *)

\* Gas.__init__: zip(*sorted(specific_heat_table.items())) splits the table,
\* given here as a sequence of <<temperature, specific heat>> pairs in
\* ascending temperature, into _temps and _specific_heats
NewGas(table) ==
    [temps |-> [k \in 1..Len(table) |-> table[k][1]],
     specific_heats |-> [k \in 1..Len(table) |-> table[k][2]]]

\* the while loop of specific_heat_capacity, i being the 0-based index of
\* the code: _temps[i + 1] is read before i is tested against the length
RECURSIVE gas_scan(_, _, _)
gas_scan(g, t, i) ==
    IF i + 1 >= Len(g.temps)
    THEN [i |-> i, err |-> "IndexError"]
    ELSE IF RLt(FromInt(g.temps[i + 2]), t) /\ i < Len(g.temps) - 1
    THEN gas_scan(g, t, i + 1)
    ELSE [i |-> i, err |-> "none"]

\* dc_dT * (temperature - _temps[i]) + _specific_heats[i], i 0-based
gas_line(g, t, i) ==
    RAdd(RMul(RDiv(FromInt(g.specific_heats[i + 2] - g.specific_heats[i + 1]),
                   FromInt(g.temps[i + 2] - g.temps[i + 1])),
              RSub(t, FromInt(g.temps[i + 1]))),
         FromInt(g.specific_heats[i + 1]))

\* Gas.specific_heat_capacity at the rational temperature t: the value
\* returned and the exception raised
specific_heat_capacity(g, t) ==
    IF RLt(t, FromInt(g.temps[1]))
    THEN [val |-> gas_line(g, t, 0), err |-> "none"]
    ELSE LET s == gas_scan(g, t, 0)
         IN  IF s.err # "none"
             THEN [val |-> Zero, err |-> s.err]
             ELSE [val |-> gas_line(g, t, s.i), err |-> "none"]

-----------------------------------------------------------------------------
(* AirGraph._update_temperature (src/gasses/air_graph.py) over gasses       *)
(* compartments; the temperature is an exact rational here                 *)

\* AirGraph.__init__: heat_loss_rate = 0.05
heat_loss_rate == Rat(1, 20)

\* x ** n for a whole n >= 0
RECURSIVE RPow(_, _)
RPow(x, n) == IF n = 0 THEN FromInt(1) ELSE RMul(x, RPow(x, n - 1))

\* np.add.reduce((c.get_densities() * c.get_volume() for c in
\* self.compartments)): the argument is a generator expression, which numpy
\* does not iterate; it becomes a 0-d object array, and the reduction of a
\* 0-d array is its one element, so the value is the generator itself and
\* no product is formed or added
graph_total_masses(cs) == [kind |-> "generator", val |-> VZero]

\* np.dot(heat_capacities, total_masses): the dot product of two vectors;
\* with a generator as second operand numpy multiplies element-wise,
\* float * generator, which is a TypeError
np_dot(u, w) ==
    IF w.kind = "array"
    THEN [val |-> VDot(u, w.val), err |-> "none"]
    ELSE [val |-> Zero, err |-> "TypeError"]

\* the four lookups of lines 35-43, in the order O2, CO2, N2, H2O: the
\* vector of values, and the exception of the first lookup that raises
graph_heat_capacities(gases, t) ==
    LET r == [i \in Species |-> specific_heat_capacity(gases[i], t)]
    IN  [val |-> [i \in Species |-> r[i].val],
         err |-> IF \E i \in Species : r[i].err # "none"
                 THEN r[CHOOSE i \in Species :
                           /\ r[i].err # "none"
                           /\ \A j \in 1..(i - 1) : r[j].err = "none"].err
                 ELSE "none"]

\* AirGraph._update_temperature(heat, dt, mode=mode), dt a whole number:
\* the temperature after the call and the exception raised
graph_update_temperature(t, cs, gases, heat, dt, mode) ==
    LET total_masses == graph_total_masses(cs)
        heat_capacities == graph_heat_capacities(gases, t)
        q_in == IF mode = "power" THEN RMul(heat, FromInt(dt)) ELSE heat
        d == np_dot(heat_capacities.val, total_masses)
    IN  IF heat_capacities.err # "none"
        THEN [temperature |-> t, err |-> heat_capacities.err]
        ELSE IF d.err # "none"
        THEN [temperature |-> t, err |-> d.err]
        ELSE [temperature |->
                 IF d.val = Zero THEN Inf
                 ELSE RAdd(RMul(t, RPow(heat_loss_rate, dt)), RDiv(q_in, d.val)),
              err |-> "none"]

-----------------------------------------------------------------------------
(* Electrolyzer (src/gasses/electrolyzer.py), built without an output tank *)
(* and without a Sabatier reactor.  Energies are in units of 100 MJ and    *)
(* the coefficients of the three fitted lines are rounded to that grid.    *)

\* Electrolyzer.__init__
NewElectrolyzer ==
    [h2o_mass_idle |-> Zero, power_draw |-> Zero,
     h2_mass_released |-> Zero, o2_mass_released |-> Zero]

\* Electrolyzer._get_h2o_mass_processed: max(6.0472588958E-8 * energy_input
\* - 0.00000246343080062, 0)
electrolyzer_get_h2o_mass_processed(energy_input) ==
    RMax(RMul(FromInt(6), energy_input), Zero)

\* Electrolyzer._get_h2_mass_output: 0.111332 * h2o_mass_input - 0.181036
electrolyzer_get_h2_mass_output(h2o_mass_input) ==
    RSub(RMul(Rat(111, 1000), h2o_mass_input), Rat(181, 1000))

\* Electrolyzer._get_o2_mass_output: 0.888099 * h2o_mass_input
electrolyzer_get_o2_mass_output(h2o_mass_input) ==
    RMul(Rat(888, 1000), h2o_mass_input)

\* Electrolyzer.update with o2_output_tank and sabatier_reactor_output None:
\* the electrolyzer and the power source after the call
electrolyzer_update(e, p, dt) ==
    LET c == power_consume_electricity(p, e.power_draw, dt, "power")
        h2o_used == electrolyzer_get_h2o_mass_processed(c.ret)
    IN  [obj |-> [e EXCEPT
                     !.h2_mass_released =
                        RAdd(@, electrolyzer_get_h2_mass_output(h2o_used)),
                     !.o2_mass_released =
                        RAdd(@, electrolyzer_get_o2_mass_output(h2o_used)),
                     !.h2o_mass_idle = RSub(@, h2o_used)],
         power |-> c.obj]

\* Electrolyzer.collect: the requested amounts are subtracted and returned
electrolyzer_collect(e, o2_amount, h2_amount, dt, mode) ==
    LET collected_o2 == IF mode = "flux" THEN RMul(o2_amount, dt) ELSE o2_amount
        collected_h2 == IF mode = "flux" THEN RMul(h2_amount, dt) ELSE h2_amount
    IN  [obj |-> [e EXCEPT !.o2_mass_released = RSub(@, collected_o2),
                           !.h2_mass_released = RSub(@, collected_h2)],
         ret |-> <<collected_o2, collected_h2>>, err |-> "none"]

\* Electrolyzer.add_water
electrolyzer_add_water(e, h2o_amount, dt, mode) ==
    [e EXCEPT !.h2o_mass_idle =
                 RAdd(@, IF mode = "flux" THEN RMul(h2o_amount, dt)
                         ELSE h2o_amount)]

-----------------------------------------------------------------------------
(* AmineSwingBed (src/gasses/amine_swing_bed.py).  Times are whole seconds, *)
(* every other quantity an exact rational.                                 *)

\* AmineSwingBed.CO2_MOLAR_MASS_KG_MOL and H2O_MOLAR_MASS_KG_MOL, in the
\* mass unit of the model
CO2_MOLAR_MASS_KG_MOL == FromInt(1)
H2O_MOLAR_MASS_KG_MOL == FromInt(1)

\* AmineSwingBed._NUMERICAL_STABILITY_FACTOR = 1.0 - 1e-7
NUMERICAL_STABILITY_FACTOR == Rat(9999999, 10000000)

\* the comparisons x > 1e-9 and x > 1e-12 on a rational x = n/d with n and d
\* in the integer range of TLC (d below 2^31, so a positive x is above
\* 1e-12)
above_1e_9(x) == x[1] > 0 /\ (x[2] \div x[1]) < 1000000000
above_1e_12(x) == x[1] > 0

\* the keyword arguments the beds of the specifications are built with;
\* the three cycle times vary
BedArguments(adsorption_cycle_time_s, desorption_cycle_time_s, cooling_cycle_time_s) ==
    [bed_volume_m3 |-> FromInt(1),
     amine_solution_mass_kg |-> FromInt(1),
     amine_concentration_wt_pct |-> FromInt(100),
     adsorption_target_temperature_k |-> FromInt(2),
     desorption_target_temperature_k |-> FromInt(6),
     cooling_target_temperature_k |-> FromInt(2),
     adsorption_cycle_time_s |-> adsorption_cycle_time_s,
     desorption_cycle_time_s |-> desorption_cycle_time_s,
     cooling_cycle_time_s |-> cooling_cycle_time_s,
     amine_molar_mass_kg_mol |-> FromInt(1),
     amine_solution_specific_heat_j_kg_k |-> FromInt(1),
     heat_of_co2_absorption_j_mol |-> FromInt(-1),
     heat_of_h2o_absorption_j_mol |-> FromInt(-1),
     max_co2_loading_mol_co2_per_mol_amine |-> FromInt(3),
     max_h2o_loading_kg_h2o_per_kg_amine_solution |-> FromInt(1),
     adsorption_rate_constant_co2 |-> Rat(1, 8),
     adsorption_rate_constant_h2o |-> Rat(1, 20),
     desorption_rate_constant_co2 |-> FromInt(1),
     desorption_rate_constant_h2o |-> FromInt(1),
     regeneration_energy_demand_j_per_kg_co2 |-> FromInt(1),
     cooling_power_factor_w_per_kg_k_diff |-> FromInt(1),
     cooling_system_cop |-> FromInt(2)]

\* AmineSwingBed.__init__ with a parent compartment at parent_temperature
NewAmineSwingBed(a, parent_temperature) ==
    LET mass_amine == RMul(a.amine_solution_mass_kg,
                           RDiv(a.amine_concentration_wt_pct, FromInt(100)))
        moles_amine == IF above_1e_9(a.amine_molar_mass_kg_mol)
                       THEN RDiv(mass_amine, a.amine_molar_mass_kg_mol)
                       ELSE Zero
    IN  [args |-> a,
         current_phase |-> "adsorption",
         time_in_current_phase_s |-> Zero,
         bed_temperature_k |-> parent_temperature,
         co2_adsorbed_mass_kg |-> Zero,
         h2o_adsorbed_mass_kg |-> Zero,
         mass_co2_ready_for_collection_kg |-> Zero,
         mass_h2o_ready_for_collection_kg |-> Zero,
         max_co2_capacity_kg |->
            IF RLt(Zero, moles_amine) /\ above_1e_9(CO2_MOLAR_MASS_KG_MOL)
            THEN RMul(RMul(moles_amine, a.max_co2_loading_mol_co2_per_mol_amine),
                      CO2_MOLAR_MASS_KG_MOL)
            ELSE Zero,
         max_h2o_capacity_kg |->
            RMul(a.amine_solution_mass_kg,
                 a.max_h2o_loading_kg_h2o_per_kg_amine_solution)]

\* one species of _adsorption_step: the mass taken up in this step
bed_adsorbed_this_step(rate_constant, partial_pressure, bed_volume, dt, max_capacity, adsorbed, available_in_parent) ==
    LET remaining == RMax(Zero, RSub(max_capacity, adsorbed))
        by_rate == RMul(RMul(RMul(rate_constant, partial_pressure), bed_volume), dt)
        tentative == RMin(by_rate, remaining)
        limited == IF RLe(available_in_parent, tentative)
                   THEN IF above_1e_12(available_in_parent)
                        THEN RMul(available_in_parent, NUMERICAL_STABILITY_FACTOR)
                        ELSE available_in_parent
                   ELSE tentative
    IN  RMax(Zero, limited)

\* AmineSwingBed._adsorption_step: the bed and the parent after the step;
\* the parent's apply_flux can raise, which ends the step where it stands
bed_adsorption_step(b, parent, t, dt) ==
    LET a == b.args
        co2 == bed_adsorbed_this_step(
                   a.adsorption_rate_constant_co2,
                   compartment_get_pressures(parent, t)[2], a.bed_volume_m3, dt,
                   b.max_co2_capacity_kg, b.co2_adsorbed_mass_kg,
                   RMul(parent.volume, parent.densities[2]))
        h2o == bed_adsorbed_this_step(
                   a.adsorption_rate_constant_h2o,
                   compartment_get_pressures(parent, t)[4], a.bed_volume_m3, dt,
                   b.max_h2o_capacity_kg, b.h2o_adsorbed_mass_kg,
                   RMul(parent.volume, parent.densities[4]))
        co2_rate == IF above_1e_9(dt) THEN RDiv(co2, dt) ELSE Zero
        h2o_rate == IF above_1e_9(dt) THEN RDiv(h2o, dt) ELSE Zero
        fluxes_to_parent == <<Zero, RSub(Zero, co2_rate), Zero, RSub(Zero, h2o_rate)>>
        applied_flux == compartment_apply_flux(parent, fluxes_to_parent, dt, "mass")
        co2_moles == IF above_1e_9(CO2_MOLAR_MASS_KG_MOL)
                     THEN RDiv(co2, CO2_MOLAR_MASS_KG_MOL) ELSE Zero
        h2o_moles == IF above_1e_9(H2O_MOLAR_MASS_KG_MOL)
                     THEN RDiv(h2o, H2O_MOLAR_MASS_KG_MOL) ELSE Zero
        total_heat_released_j ==
            RSub(Zero, RAdd(RMul(co2_moles, a.heat_of_co2_absorption_j_mol),
                            RMul(h2o_moles, a.heat_of_h2o_absorption_j_mol)))
        heat_capacity == RMul(a.amine_solution_mass_kg,
                              a.amine_solution_specific_heat_j_kg_k)
        warmed == IF RLt(Zero, a.amine_solution_mass_kg)
                     /\ RLt(Zero, a.amine_solution_specific_heat_j_kg_k)
                  THEN RAdd(b.bed_temperature_k,
                            RDiv(total_heat_released_j, heat_capacity))
                  ELSE b.bed_temperature_k
        taken == [b EXCEPT !.co2_adsorbed_mass_kg = RAdd(@, co2),
                           !.h2o_adsorbed_mass_kg = RAdd(@, h2o)]
    IN  IF applied_flux.err # "none"
        THEN [bed |-> taken, parent |-> applied_flux.obj, err |-> applied_flux.err]
        ELSE [bed |-> [taken EXCEPT
                          !.bed_temperature_k =
                             RMin(warmed,
                                  RAdd(a.desorption_target_temperature_k,
                                       FromInt(50)))],
              parent |-> applied_flux.obj, err |-> "none"]

\* AmineSwingBed._desorption_step: the bed and the power source after it
bed_desorption_step(b, p, dt) ==
    LET a == b.args
        heat_capacity == RMul(a.amine_solution_mass_kg,
                              a.amine_solution_specific_heat_j_kg_k)
        needed == RSub(a.desorption_target_temperature_k, b.bed_temperature_k)
        increase == RMax(Zero, RMin(needed, RMul(FromInt(2), dt)))
        heating == RLt(b.bed_temperature_k, a.desorption_target_temperature_k)
                     /\ RLt(Zero, a.amine_solution_mass_kg)
                     /\ RLt(Zero, a.amine_solution_specific_heat_j_kg_k)
        for_heating == RMul(increase, heat_capacity)
        heated == power_consume_heat(p, for_heating, dt, "energy")
        p1 == IF heating THEN heated.obj ELSE p
        temp1 == IF heating /\ above_1e_9(for_heating)
                 THEN RAdd(b.bed_temperature_k,
                           RMul(increase, RDiv(heated.ret, for_heating)))
                 ELSE b.bed_temperature_k
        hot == RLe(RSub(a.desorption_target_temperature_k, FromInt(5)), temp1)
        co2_potential == RMax(Zero,
                              RMin(RMul(RMul(a.desorption_rate_constant_co2,
                                             b.co2_adsorbed_mass_kg), dt),
                                   b.co2_adsorbed_mass_kg))
        h2o_potential == RMax(Zero,
                              RMin(RMul(RMul(a.desorption_rate_constant_h2o,
                                             b.h2o_adsorbed_mass_kg), dt),
                                   b.h2o_adsorbed_mass_kg))
        demand == IF RLt(Zero, a.regeneration_energy_demand_j_per_kg_co2)
                     /\ RLt(Zero, co2_potential)
                  THEN RMul(co2_potential, a.regeneration_energy_demand_j_per_kg_co2)
                  ELSE Zero
        desorbing == power_consume_heat(p1, demand, dt, "energy")
        p2 == IF RLt(Zero, demand) THEN desorbing.obj ELSE p1
        consumed == IF RLt(Zero, demand) THEN desorbing.ret ELSE Zero
        proportion == IF above_1e_9(demand) THEN RDiv(consumed, demand)
                      ELSE IF RLt(Zero, co2_potential) THEN Zero
                      ELSE FromInt(1)
        co2 == RMul(co2_potential, proportion)
        h2o == RMul(h2o_potential, proportion)
    IN  IF hot
        THEN [bed |-> [b EXCEPT
                          !.bed_temperature_k = temp1,
                          !.co2_adsorbed_mass_kg = RSub(@, co2),
                          !.h2o_adsorbed_mass_kg = RSub(@, h2o),
                          !.mass_co2_ready_for_collection_kg = RAdd(@, co2),
                          !.mass_h2o_ready_for_collection_kg = RAdd(@, h2o)],
              power |-> p2]
        ELSE [bed |-> [b EXCEPT !.bed_temperature_k = temp1], power |-> p1]

\* AmineSwingBed._cooling_step: the bed and the power source after it
bed_cooling_step(b, p, dt) ==
    LET a == b.args
        difference == RSub(b.bed_temperature_k, a.cooling_target_temperature_k)
        cooling_power == RMax(Zero,
                              IF RLt(Zero, a.amine_solution_mass_kg)
                              THEN RMul(RMul(a.cooling_power_factor_w_per_kg_k_diff,
                                             a.amine_solution_mass_kg), difference)
                              ELSE Zero)
        drawn == power_consume_electricity(p, RMul(cooling_power, dt), dt, "energy")
        removed == IF above_1e_9(a.cooling_system_cop)
                   THEN RMul(a.cooling_system_cop, drawn.ret) ELSE Zero
        heat_capacity == RMul(a.amine_solution_mass_kg,
                              a.amine_solution_specific_heat_j_kg_k)
        decrease == RMax(Zero, RMin(RDiv(removed, heat_capacity), difference))
    IN  IF RLt(a.cooling_target_temperature_k, b.bed_temperature_k)
        THEN [bed |-> IF RLt(Zero, a.amine_solution_mass_kg)
                         /\ RLt(Zero, a.amine_solution_specific_heat_j_kg_k)
                      THEN [b EXCEPT !.bed_temperature_k = RSub(@, decrease)]
                      ELSE b,
              power |-> drawn.obj]
        ELSE [bed |-> b, power |-> p]

\* a phase check that lets the time in the phase reach the cycle time
\* without changing phase
bed_phase_check_strict(b, cycle_time_s, next_phase) ==
    IF RLt(FromInt(cycle_time_s), b.time_in_current_phase_s)
    THEN [b EXCEPT !.current_phase = next_phase, !.time_in_current_phase_s = Zero]
    ELSE b

\* the end of a branch of update: the phase changes when the time in the
\* phase has reached the phase's cycle time
bed_phase_check(b, cycle_time_s, next_phase) ==
    IF RLe(FromInt(cycle_time_s), b.time_in_current_phase_s)
    THEN [b EXCEPT !.current_phase = next_phase, !.time_in_current_phase_s = Zero]
    ELSE b

\* the float sum of line 136, self._time_in_current_phase_s += dt, for a time
\* a >= 0 and a step b > 0. IEEE doubles carry 53 bits: a step of at most
\* 2^-28 s is below half a unit in the last place of a time of at least
\* 2^27 s, and the sum rounds back to the time. The other sums the
\* specifications form have few enough bits to be exact.
float_add(a, b) ==
    IF a[1] \div a[2] >= 134217728 /\ b[1] > 0 /\ b[2] \div b[1] >= 268435456
    THEN a
    ELSE RAdd(a, b)

\* AmineSwingBed.update(dt): the bed, its parent compartment and the power
\* source after the call, and the exception raised
bed_update(b, parent, p, t, dt) ==
    LET timed == [b EXCEPT !.time_in_current_phase_s = float_add(@, dt)]
        ad == bed_adsorption_step(timed, parent, t, dt)
        de == bed_desorption_step(timed, p, dt)
        co == bed_cooling_step(timed, p, dt)
    IN  IF RLe(dt, Zero)
        THEN [bed |-> b, parent |-> parent, power |-> p, err |-> "none"]
        ELSE IF b.current_phase = "adsorption"
        THEN [bed |-> IF ad.err # "none" THEN ad.bed
                      ELSE bed_phase_check(ad.bed, b.args.adsorption_cycle_time_s,
                                           "desorption"),
              parent |-> ad.parent, power |-> p, err |-> ad.err]
        ELSE IF b.current_phase = "desorption"
        THEN [bed |-> bed_phase_check(de.bed, b.args.desorption_cycle_time_s,
                                      "cooling"),
              parent |-> parent, power |-> de.power, err |-> "none"]
        ELSE [bed |-> bed_phase_check(co.bed, b.args.cooling_cycle_time_s,
                                      "adsorption"),
              parent |-> parent, power |-> co.power, err |-> "none"]

\* AmineSwingBed.collect
bed_collect(b, amount_co2_kg, amount_h2o_kg, dt, mode) ==
    LET co2_to_remove == IF mode = "flux" THEN RMul(amount_co2_kg, dt)
                         ELSE amount_co2_kg
        h2o_to_remove == IF mode = "flux" THEN RMul(amount_h2o_kg, dt)
                         ELSE amount_h2o_kg
        actual_co2 == RMax(Zero, RMin(co2_to_remove,
                                      b.mass_co2_ready_for_collection_kg))
        actual_h2o == RMax(Zero, RMin(h2o_to_remove,
                                      b.mass_h2o_ready_for_collection_kg))
    IN  IF mode \notin {"flux", "amount"}
        THEN [obj |-> b, ret |-> <<Zero, Zero>>, err |-> "ValueError"]
        ELSE [obj |-> [b EXCEPT
                          !.mass_co2_ready_for_collection_kg = RSub(@, actual_co2),
                          !.mass_h2o_ready_for_collection_kg = RSub(@, actual_h2o)],
              ret |-> <<actual_co2, actual_h2o>>, err |-> "none"]

\* the tables of chem.O2, chem.CO2, chem.N2 and chem.H2O the specifications
\* start from when they do not vary them
DefaultChem ==
    [i \in Species |-> NewGas(<<<<0, 1>>, <<2, 2>>>>)]

\* the collaborators as their constructors leave them
IdlePlant ==
    /\ power = NewPowerSource
    /\ electrolyzer = NewElectrolyzer
    /\ bed = NewAmineSwingBed(BedArguments(2, 2, 2), FromInt(1))
    /\ chem = DefaultChem

-----------------------------------------------------------------------------
(* Records of calls and the values of the objects a specification leaves alone *)

NoCall ==
    [op |-> "none", target |-> "none", dt |-> 0, mode |-> "none", arg |-> VZero,
     ret |-> VZero, exit |-> "none", pre |-> VZero, pre_flux |-> VZero,
     pre_source |-> VZero, pre2 |-> VZero, would_neg |-> FALSE,
     pre_valve |-> NewValve(1, 0, 1, 2), state |-> FALSE, answer |-> FALSE,
     prev_op |-> "none", prev_exit |-> "none", prev_dt |-> 0,
     amount |-> Zero, amount2 |-> Zero, val |-> Zero, val2 |-> Zero,
     species |-> 0, pre_temperature |-> Zero, odd |-> FALSE,
     pre_power |-> NewPowerSource, pre_electrolyzer |-> NewElectrolyzer,
     pre_bed |-> NewAmineSwingBed(BedArguments(2, 2, 2), FromInt(1))]

\* the record of a call made on a collaborator
PlantCall(op, target, dt, mode, amount, amount2) ==
    [NoCall EXCEPT !.op = op, !.target = target, !.dt = dt, !.mode = mode,
                   !.amount = FromInt(amount), !.amount2 = FromInt(amount2),
                   !.pre_power = power, !.pre_electrolyzer = electrolyzer,
                   !.pre_bed = bed, !.pre = room.densities, !.prev_op = last.op]

\* what an Atmosphere reports through its getters
AtmReport(a) ==
    [densities |-> atmosphere_get_densities(a),
     density |-> atmosphere_get_density(a),
     pressures |-> atmosphere_get_pressures(a),
     pressure |-> atmosphere_get_pressure(a)]

\* since_read: the sum of the deltas apply_flux added to the ledger since the
\* last read_flux; since_reset: the same sum, started again by a
\* fill_to_capacity call that added gas as well
NoHist ==
    [source0 |-> VZero, removed |-> VZero, report0 |-> AtmReport(NewAtmosphere(1)),
     since_read |-> VZero, since_reset |-> VZero]

IdleGraph ==
    /\ comp = [c \in CompIds |-> NewCompartment(1, 0, 0)]
    /\ valve = [v \in ValveIds |-> NewValve(1, 0, v, v + 1)]
    /\ pc = "idle" /\ idx = 1 /\ tick_dt = 0
    /\ snap = comp
    /\ computed = NoCounts /\ applied = NoCounts
    /\ ticks = 0

IdleVessels ==
    /\ room = NewAirCompartment(FromInt(1))
    /\ atm = NewAtmosphere(1)
    /\ tank = NewAirTank(FromInt(1), FromInt(12))
    /\ source = VZero

-----------------------------------------------------------------------------
(* Specification of the graph: valves, compartments, airflow ticks *)

Init ==
    /\ temperature \in Temperatures
    /\ \E vols \in VolumeLayouts :
         comp \in {f \in [CompIds -> [volume : {1, 2}, o2_density : Densities,
                                      co2_density : Co2Densities]] :
                      \A c \in CompIds : f[c].volume = vols[c]}
    /\ \E ca \in [ValveIds -> Areas] :
         valve = [v \in ValveIds |-> NewValve(1, ca[v], v, v + 1)]
    /\ pc = "idle" /\ idx = 1 /\ tick_dt = 0
    /\ snap = comp
    /\ computed = NoCounts /\ applied = NoCounts
    /\ ticks = 0
    /\ err = "none"
    /\ IdleVessels
    /\ last = NoCall /\ hist = NoHist /\ ops = 0
    /\ IdlePlant

Next ==
    \/ \E v \in ValveIds, b \in BOOLEAN : ValveSetState(v, b)
    \/ \E dt \in Dts : TickStart(dt)
    \/ ComputeStep
    \/ ApplyStep

Spec == Init /\ [][Next]_vars

-----------------------------------------------------------------------------
(* Specification of the compartments: a gasses AirCompartment, the         *)
(* Atmosphere and an o2sys AirCompartment driven by external callers       *)

FluxVectors == {IVec(<<0, 0, 1, 0>>), IVec(<<0, 0, -1, 0>>), IVec(<<2, 0, 0, 1>>)}
Modes == {"density", "mass"}
VesselVolumes == {1, 2}
ScalarFluxes == {-1, 1}

Call(op, target, dt, mode, arg) ==
    [NoCall EXCEPT !.op = op, !.target = target, !.dt = dt, !.mode = mode,
                   !.arg = arg, !.prev_op = last.op, !.prev_exit = last.exit,
                   !.prev_dt = last.dt]

InitComp ==
    /\ temperature \in Temperatures
    /\ IdleGraph
    /\ err = "none"
    /\ \E vol \in VesselVolumes : room = NewAirCompartment(FromInt(vol))
    /\ \E t \in Temperatures : atm = NewAtmosphere(t)
    /\ tank = NewAirTank(FromInt(1), FromInt(12))
    /\ source = VZero
    /\ last = NoCall
    /\ hist = [NoHist EXCEPT !.report0 = AtmReport(atm)]
    /\ ops = 0
    /\ IdlePlant

\* a caller's room.apply_flux(fluxes, dt, mode=mode)
RoomApplyFlux(fluxes, dt, mode) ==
    /\ err = "none" /\ ops < MaxCalls
    /\ LET r == compartment_apply_flux(room, fluxes, FromInt(dt), mode)
       IN  /\ room' = r.obj
           /\ err' = r.err
           /\ last' = [Call("apply_flux", "room", dt, mode, fluxes) EXCEPT
                          !.pre = room.densities,
                          !.would_neg = ~VNonNeg(r.obj.densities)]
    /\ ops' = ops + 1
    /\ UNCHANGED <<plantVars, temperature, graphVars, atm, tank, source, hist>>

\* a caller's room.add_gas(amounts, mode=mode)
RoomAddGas(amounts, mode) ==
    /\ err = "none" /\ ops < MaxCalls
    /\ LET r == compartment_add_gas(room, amounts, mode)
       IN  /\ room' = r.obj
           /\ err' = r.err
           /\ last' = [Call("add_gas", "room", 0, mode, amounts) EXCEPT
                          !.pre = room.densities,
                          !.would_neg = ~VNonNeg(r.obj.densities)]
    /\ ops' = ops + 1
    /\ UNCHANGED <<plantVars, temperature, graphVars, atm, tank, source, hist>>

\* a caller's atmosphere.apply_flux(fluxes, dt, mode=mode)
AtmApplyFlux(fluxes, dt, mode) ==
    /\ err = "none" /\ ops < MaxCalls
    /\ LET r == atmosphere_apply_flux(atm, fluxes, FromInt(dt), mode)
       IN  /\ atm' = r.obj
           /\ err' = r.err
           /\ last' = [Call("apply_flux", "atmosphere", dt, mode, fluxes) EXCEPT
                          !.pre = atm.densities]
    /\ ops' = ops + 1
    /\ UNCHANGED <<plantVars, temperature, graphVars, room, tank, source, hist>>

\* a caller's atmosphere.add_gas(masses, mode=mode)
AtmAddGas(masses, mode) ==
    /\ err = "none" /\ ops < MaxCalls
    /\ LET r == atmosphere_add_gas(atm, masses, mode)
       IN  /\ atm' = r.obj
           /\ err' = r.err
           /\ last' = [Call("add_gas", "atmosphere", 0, mode, masses) EXCEPT
                          !.pre = atm.densities]
    /\ ops' = ops + 1
    /\ UNCHANGED <<plantVars, temperature, graphVars, room, tank, source, hist>>

\* a caller's apply_flux(o2_density_flux, co2_density_flux, dt) on an o2sys
\* compartment; the method has no check and returns normally
LegacyApplyFlux(c, o2_density_flux, co2_density_flux, dt) ==
    /\ err = "none" /\ ops < MaxCalls
    /\ LET r == o2sys_apply_flux(comp[c], o2_density_flux, co2_density_flux, dt)
       IN  /\ comp' = [comp EXCEPT ![c] = r]
           /\ last' = [Call("apply_flux", "o2sys", dt, "density",
                            IVec(<<o2_density_flux, co2_density_flux, 0, 0>>))
                         EXCEPT !.pre = IVec(<<comp[c].o2_density,
                                               comp[c].co2_density, 0, 0>>),
                                !.would_neg = (r.o2_density < 0
                                               \/ r.co2_density < 0)]
    /\ ops' = ops + 1
    /\ UNCHANGED <<plantVars, temperature, valve, pc, idx, tick_dt, snap, computed, applied,
                   ticks, err, vesselVars, hist>>

NextComp ==
    \/ \E f \in FluxVectors, dt \in Dts, m \in Modes : RoomApplyFlux(f, dt, m)
    \/ \E a \in FluxVectors, m \in Modes : RoomAddGas(a, m)
    \/ \E f \in FluxVectors, dt \in Dts, m \in Modes : AtmApplyFlux(f, dt, m)
    \/ \E a \in FluxVectors, m \in Modes : AtmAddGas(a, m)
    \/ \E f \in ScalarFluxes, g \in ScalarFluxes, dt \in Dts :
          LegacyApplyFlux(1, f, g, dt)

SpecComp == InitComp /\ [][NextComp]_vars

-----------------------------------------------------------------------------
(* Specification of the tank: AirTank and the source array of its caller *)

Sources == {IVec(<<5, 0, 0, 0>>), IVec(<<1, 1, 0, 0>>), IVec(<<0, 0, 0, 0>>),
            IVec(<<0, 0, 3, -2>>)}
MaxPressures == {12}

InitTank ==
    /\ temperature \in Temperatures
    /\ IdleGraph
    /\ err = "none"
    /\ room = NewAirCompartment(FromInt(1))
    /\ atm = NewAtmosphere(1)
    /\ \E vol \in VesselVolumes, p \in MaxPressures :
          tank = NewAirTank(FromInt(vol), FromInt(p))
    /\ source \in Sources
    /\ last = NoCall
    /\ hist = [NoHist EXCEPT !.source0 = source]
    /\ ops = 0
    /\ IdlePlant

\* a caller's tank.apply_flux(fluxes, dt, mode=mode)
TankApplyFlux(fluxes, dt, mode) ==
    /\ err = "none" /\ ops < MaxOps
    /\ LET r == tank_apply_flux(tank, fluxes, FromInt(dt), mode)
       IN  /\ tank' = r.obj
           /\ err' = r.err
           /\ last' = [Call("apply_flux", "tank", dt, mode, fluxes) EXCEPT
                          !.pre = tank.densities, !.pre_flux = tank.flux,
                          !.pre_source = source,
                          !.would_neg = ~VNonNeg(r.obj.densities)]
    /\ LET delta == IF mode = "density" THEN fluxes
                    ELSE VDivVolume(fluxes, tank.volume)
       IN  hist' = [hist EXCEPT !.since_read = VAdd(@, delta),
                                !.since_reset = VAdd(@, delta)]
    /\ ops' = ops + 1
    /\ UNCHANGED <<plantVars, temperature, graphVars, room, atm, source>>

\* a caller's tank.add_gas(amounts, mode=mode), inherited from AirCompartment
TankAddGas(amounts, mode) ==
    /\ err = "none" /\ ops < MaxOps
    /\ LET r == compartment_add_gas(tank, amounts, mode)
       IN  /\ tank' = r.obj
           /\ err' = r.err
           /\ last' = [Call("add_gas", "tank", 0, mode, amounts) EXCEPT
                          !.pre = tank.densities, !.pre_flux = tank.flux,
                          !.pre_source = source,
                          !.would_neg = ~VNonNeg(r.obj.densities)]
    /\ ops' = ops + 1
    /\ UNCHANGED <<plantVars, temperature, graphVars, room, atm, source, hist>>

\* a caller's tank.read_flux()
TankReadFlux ==
    /\ err = "none" /\ ops < MaxOps
    /\ LET r == tank_read_flux(tank)
       IN  /\ tank' = r.obj
           /\ last' = [Call("read_flux", "tank", 0, "none", VZero) EXCEPT
                          !.pre = tank.densities, !.pre_flux = tank.flux,
                          !.pre_source = source, !.ret = r.ret]
    /\ hist' = [hist EXCEPT !.since_read = VZero, !.since_reset = VZero]
    /\ ops' = ops + 1
    /\ UNCHANGED <<plantVars, temperature, graphVars, room, atm, source, err>>

\* a caller's tank.is_full(dt)
TankIsFull(dt) ==
    /\ err = "none" /\ ops < MaxOps
    /\ last' = [Call("is_full", "tank", dt, "none", VZero) EXCEPT
                   !.pre = tank.densities, !.pre_flux = tank.flux,
                   !.pre_source = source,
                   !.answer = tank_is_full(tank, FromInt(dt), temperature)]
    /\ ops' = ops + 1
    /\ UNCHANGED <<plantVars, temperature, graphVars, vesselVars, hist, err>>

\* a caller's tank.fill_to_capacity(source, dt)
TankFillToCapacity(dt) ==
    /\ err = "none" /\ ops < MaxOps
    /\ LET r == tank_fill_to_capacity(tank, source, FromInt(dt), temperature)
       IN  /\ tank' = r.obj
           /\ source' = r.source
           /\ err' = r.err
           /\ last' = [Call("fill_to_capacity", "tank", dt, "none", source) EXCEPT
                          !.pre = tank.densities, !.pre_flux = tank.flux,
                          !.pre_source = source, !.ret = r.ret,
                          !.exit = r.exit]
           /\ hist' = [hist EXCEPT
                          !.removed = VAdd(@, r.ret),
                          !.since_reset = IF r.exit \in {"filled", "drained"}
                                          THEN VZero ELSE @]
    /\ ops' = ops + 1
    /\ UNCHANGED <<plantVars, temperature, graphVars, room, atm>>

NextTank ==
    \/ \E f \in FluxVectors, dt \in Dts, m \in Modes : TankApplyFlux(f, dt, m)
    \/ \E a \in FluxVectors, m \in Modes : TankAddGas(a, m)
    \/ TankReadFlux
    \/ \E dt \in Dts : TankIsFull(dt)
    \/ \E dt \in Dts : TankFillToCapacity(dt)

SpecTank == InitTank /\ [][NextTank]_vars

-----------------------------------------------------------------------------
(* Specification of a valve between two gasses compartments: valve 1 with  *)
(* the AirCompartment `room` as compartment1 and the AirTank `tank` as     *)
(* compartment2, both holding gas and carrying filter masks                *)

RoomDensities == {<<1, 1, 0, 0>>, <<2, 1, 0, 0>>, <<1, 2, 0, 0>>}
TankDensities == {<<1, 1, 0, 0>>, <<2, 2, 0, 0>>}
RoomFilters == {<<TRUE, TRUE, TRUE, TRUE>>, <<FALSE, TRUE, TRUE, TRUE>>}
TankFilters == {<<TRUE, TRUE, TRUE, TRUE>>, <<TRUE, FALSE, TRUE, TRUE>>}

\* the two sides as the valve reads them
DuctSides == <<compartment_valve_side(room), compartment_valve_side(tank)>>

\* AirValve.apply_flux on two gasses compartments: the first call raises
duct_apply_flux(v, c1, c2, dt) ==
    IF v.is_open
    THEN LET r1 == compartment_apply_flux_scalars(c1, v.o2_flux, v.co2_flux, dt)
             r2 == compartment_apply_flux_scalars(c2, -v.o2_flux, -v.co2_flux, dt)
         IN  IF r1.err # "none"
             THEN [c1 |-> r1.obj, c2 |-> c2, err |-> r1.err]
             ELSE [c1 |-> r1.obj, c2 |-> r2.obj, err |-> r2.err]
    ELSE [c1 |-> c1, c2 |-> c2, err |-> "none"]

InitDuct ==
    /\ temperature \in Temperatures
    /\ comp = [c \in CompIds |-> NewCompartment(1, 0, 0)]
    /\ \E ca \in Areas : valve = [v \in ValveIds |-> NewValve(1, ca, v, v + 1)]
    /\ pc = "idle" /\ idx = 1 /\ tick_dt = 0
    /\ snap = comp
    /\ computed = NoCounts /\ applied = NoCounts
    /\ ticks = 0
    /\ err = "none"
    /\ \E d \in RoomDensities, f \in RoomFilters :
          room = [NewAirCompartment(FromInt(1)) EXCEPT
                     !.densities = IVec(d), !.filter = f]
    /\ atm = NewAtmosphere(1)
    /\ \E d \in TankDensities, f \in TankFilters :
          tank = [NewAirTank(FromInt(1), FromInt(12)) EXCEPT
                     !.densities = IVec(d), !.filter = f]
    /\ source = VZero
    /\ last = NoCall /\ hist = NoHist /\ ops = 0
    /\ IdlePlant

\* the record of a call of method op on valve v
ValveCall(op, target, v) ==
    [NoCall EXCEPT !.op = op, !.target = target, !.pre = room.densities,
                   !.pre2 = tank.densities, !.pre_valve = valve[v]]

\* a caller's valve.compute_flux(temperature)
DuctComputeFlux ==
    /\ err = "none" /\ ops < MaxCalls
    /\ LET r == compute_flux(valve[1], temperature, DuctSides)
       IN  /\ valve' = [valve EXCEPT ![1] = r.valve]
           /\ err' = r.err
    /\ last' = ValveCall("compute_flux", "valve", 1)
    /\ ops' = ops + 1
    /\ UNCHANGED <<plantVars, temperature, comp, pc, idx, tick_dt, snap, computed, applied,
                   ticks, vesselVars, hist>>

\* a caller's valve.apply_flux(dt)
DuctApplyFlux(dt) ==
    /\ err = "none" /\ ops < MaxCalls
    /\ LET r == duct_apply_flux(valve[1], room, tank, dt)
       IN  /\ room' = r.c1
           /\ tank' = r.c2
           /\ err' = r.err
    /\ last' = [ValveCall("valve_apply_flux", "valve", 1) EXCEPT !.dt = dt]
    /\ ops' = ops + 1
    /\ UNCHANGED <<plantVars, temperature, graphVars, atm, source, hist>>

\* a caller's valve.open()
DuctOpen ==
    /\ err = "none"
    /\ valve' = [valve EXCEPT ![1] = valve_open(@)]
    /\ last' = ValveCall("open", "valve", 1)
    /\ UNCHANGED <<plantVars, temperature, comp, pc, idx, tick_dt, snap, computed, applied,
                   ticks, err, vesselVars, hist, ops>>

\* a caller's valve.close()
DuctClose ==
    /\ err = "none"
    /\ valve' = [valve EXCEPT ![1] = valve_close(@)]
    /\ last' = ValveCall("close", "valve", 1)
    /\ UNCHANGED <<plantVars, temperature, comp, pc, idx, tick_dt, snap, computed, applied,
                   ticks, err, vesselVars, hist, ops>>

\* a caller's valve.set_state(state)
DuctSetState(state) ==
    /\ err = "none"
    /\ valve' = [valve EXCEPT ![1] = valve_set_state(@, state)]
    /\ last' = [ValveCall("set_state", "valve", 1) EXCEPT !.state = state]
    /\ UNCHANGED <<plantVars, temperature, comp, pc, idx, tick_dt, snap, computed, applied,
                   ticks, err, vesselVars, hist, ops>>

\* a caller's valve.is_open()
DuctIsOpen ==
    /\ err = "none"
    /\ last' = [ValveCall("is_open", "valve", 1) EXCEPT
                   !.answer = valve_is_open(valve[1])]
    /\ UNCHANGED <<plantVars, temperature, graphVars, err, vesselVars, hist, ops>>

NextDuct ==
    \/ DuctOpen
    \/ DuctClose
    \/ \E b \in BOOLEAN : DuctSetState(b)
    \/ DuctIsOpen
    \/ DuctComputeFlux
    \/ \E dt \in Dts : DuctApplyFlux(dt)

SpecDuct == InitDuct /\ [][NextDuct]_vars

-----------------------------------------------------------------------------
(* Specification of a Door driven by its callers: valve 2 is a Door        *)

DoorDims == {<<100, 200>>, <<80, 200>>}       \* (width, height) in centimetres

\* the record of a call of method op on the door
DoorCall(op) == [ValveCall(op, "door", 2) EXCEPT !.prev_op = last.op]

InitDoor ==
    /\ temperature = 1
    /\ comp = [c \in CompIds |-> NewCompartment(1, 0, 0)]
    /\ \E airtight \in BOOLEAN, dims \in DoorDims :
          valve = <<NewValve(1, 0, 1, 2), NewDoor(airtight, dims, 2, 3)>>
    /\ pc = "idle" /\ idx = 1 /\ tick_dt = 0
    /\ snap = comp
    /\ computed = NoCounts /\ applied = NoCounts
    /\ ticks = 0
    /\ err = "none"
    /\ IdleVessels
    /\ last = NoCall /\ hist = NoHist /\ ops = 0
    /\ IdlePlant

\* a caller's door.open()
DoorOpen ==
    /\ err = "none"
    /\ valve' = [valve EXCEPT ![2] = door_open(@)]
    /\ last' = DoorCall("open")
    /\ UNCHANGED <<plantVars, temperature, comp, pc, idx, tick_dt, snap, computed, applied,
                   ticks, err, vesselVars, hist, ops>>

\* a caller's door.close()
DoorClose ==
    /\ err = "none"
    /\ valve' = [valve EXCEPT ![2] = door_close(@)]
    /\ last' = DoorCall("close")
    /\ UNCHANGED <<plantVars, temperature, comp, pc, idx, tick_dt, snap, computed, applied,
                   ticks, err, vesselVars, hist, ops>>

\* a caller's door.set_state(state): the method Door inherits from AirValve
DoorSetState(state) ==
    /\ err = "none"
    /\ valve' = [valve EXCEPT ![2] = valve_set_state(@, state)]
    /\ last' = [DoorCall("set_state") EXCEPT !.state = state]
    /\ UNCHANGED <<plantVars, temperature, comp, pc, idx, tick_dt, snap, computed, applied,
                   ticks, err, vesselVars, hist, ops>>

\* a caller's door.lock()
DoorLock ==
    /\ err = "none"
    /\ valve' = [valve EXCEPT ![2] = door_lock(@)]
    /\ last' = DoorCall("lock")
    /\ UNCHANGED <<plantVars, temperature, comp, pc, idx, tick_dt, snap, computed, applied,
                   ticks, err, vesselVars, hist, ops>>

\* a caller's door.unlock()
DoorUnlock ==
    /\ err = "none"
    /\ valve' = [valve EXCEPT ![2] = door_unlock(@)]
    /\ last' = DoorCall("unlock")
    /\ UNCHANGED <<plantVars, temperature, comp, pc, idx, tick_dt, snap, computed, applied,
                   ticks, err, vesselVars, hist, ops>>

NextDoor ==
    \/ DoorOpen
    \/ DoorClose
    \/ \E b \in BOOLEAN : DoorSetState(b)
    \/ DoorLock
    \/ DoorUnlock

SpecDoor == InitDoor /\ [][NextDoor]_vars

-----------------------------------------------------------------------------
(* Specification of the specific-heat lookup of the four species *)

\* specific-heat tables: <<temperature, specific heat>> in ascending
\* temperature
GasTables == {<<<<0, 1>>, <<2, 2>>>>, <<<<1, 4>>, <<2, 2>>, <<4, 3>>>>}
LookupTemperatures == -1..5

InitChem ==
    /\ temperature = 1
    /\ IdleGraph
    /\ IdleVessels
    /\ err = "none"
    /\ last = NoCall /\ hist = NoHist /\ ops = 0
    /\ power = NewPowerSource
    /\ electrolyzer = NewElectrolyzer
    /\ bed = NewAmineSwingBed(BedArguments(2, 2, 2), FromInt(1))
    /\ \E tables \in [Species -> GasTables] :
          chem = [i \in Species |-> NewGas(tables[i])]

\* a caller's chem.<species i>.specific_heat_capacity(t)
SpecificHeatLookup(i, t) ==
    /\ err = "none"
    /\ LET r == specific_heat_capacity(chem[i], FromInt(t))
       IN  /\ err' = r.err
           /\ last' = [PlantCall("specific_heat_capacity", "chem", 0, "none", t, 0)
                          EXCEPT !.species = i, !.val = r.val]
    /\ UNCHANGED <<temperature, graphVars, vesselVars, hist, ops, plantVars>>

NextChem == \E i \in Species, t \in LookupTemperatures : SpecificHeatLookup(i, t)

SpecChem == InitChem /\ [][NextChem]_vars

-----------------------------------------------------------------------------
(* Specification of the temperature update of a graph whose compartments   *)
(* are the AirCompartment `room` and the AirTank `tank`                    *)

PowerModes == {"power", "energy"}
HeatTemperatures == {1, 3}
Heats == {0, 2}
HeatDensities == {<<1, 0, 2, 0>>, <<0, 1, 0, 1>>}

InitHeat ==
    /\ temperature \in {FromInt(t) : t \in HeatTemperatures}
    /\ IdleGraph
    /\ err = "none"
    /\ \E vol \in VesselVolumes, d \in HeatDensities :
          room = [NewAirCompartment(FromInt(vol)) EXCEPT !.densities = IVec(d)]
    /\ atm = NewAtmosphere(1)
    /\ \E d \in HeatDensities :
          tank = [NewAirTank(FromInt(1), FromInt(12)) EXCEPT !.densities = IVec(d)]
    /\ source = VZero
    /\ last = NoCall /\ hist = NoHist /\ ops = 0
    /\ power = NewPowerSource
    /\ electrolyzer = NewElectrolyzer
    /\ bed = NewAmineSwingBed(BedArguments(2, 2, 2), FromInt(1))
    /\ \E tables \in [Species -> GasTables] :
          chem = [i \in Species |-> NewGas(tables[i])]

\* a caller's graph._update_temperature(heat, dt, mode=mode); Habitat.
\* _update_systems is the caller with mode "energy"
UpdateTemperature(heat, dt, mode) ==
    /\ err = "none" /\ ops < MaxUpdates
    /\ LET r == graph_update_temperature(temperature, <<room, tank>>, chem,
                                         FromInt(heat), dt, mode)
       IN  /\ temperature' = r.temperature
           /\ err' = r.err
           /\ last' = [PlantCall("_update_temperature", "graph", dt, mode, heat, 0)
                          EXCEPT !.pre_temperature = temperature,
                                 !.pre2 = tank.densities]
    /\ ops' = ops + 1
    /\ UNCHANGED <<graphVars, vesselVars, hist, plantVars>>

NextHeat == \E h \in Heats, dt \in Dts, m \in PowerModes : UpdateTemperature(h, dt, m)

SpecHeat == InitHeat /\ [][NextHeat]_vars

-----------------------------------------------------------------------------
(* Specifications of the collaborators that buffer gas: an AmineSwingBed   *)
(* whose parent compartment is `room`, and an Electrolyzer, both on the    *)
(* power source `power`                                                    *)

CollectModes == {"flux", "amount"}
CycleTimes == {<<1, 1, 1>>, <<2, 1, 3>>, <<3, 2, 2>>}
PositiveDts == {FromInt(1), FromInt(2)}
NonPositiveDts == {FromInt(-1), Zero}

\* a bed whose cycle lasts years (2^28 s, 2^27 s, 2^27 s), stepped in years
\* (2^27 s) or in nanoseconds (2^-28 s)
LongCycleTimes == <<268435456, 134217728, 134217728>>
LongDt == FromInt(134217728)
ShortDt == Rat(1, 268435456)
ChargedSources == {NewPowerSource,
                   [electrical_energy |-> FromInt(6), thermal_energy |-> FromInt(6)]}
BedRequests == {-1, 1, 5}
ElectrolyzerRequests == {1, 20}
Phases == {"adsorption", "desorption", "cooling"}
BedRooms == {<<1, 16, 0, 8>>, <<1, 0, 0, 0>>}

\* the steps a caller of update chooses from: whole seconds for the beds
\* with cycles of seconds, years for the bed with cycles of years
StepsFor(b) ==
    IF b.args.adsorption_cycle_time_s = LongCycleTimes[1]
    THEN {LongDt}
    ELSE PositiveDts

\* a room of volume 1 with or without CO2 and H2O in it, a power source that
\* has been charged or not, and a new bed with cycles of seconds; or an
\* empty room, an empty power source and a new bed with cycles of years
InitBed ==
    /\ temperature = 1
    /\ IdleGraph
    /\ err = "none"
    /\ atm = NewAtmosphere(1)
    /\ tank = NewAirTank(FromInt(1), FromInt(12))
    /\ source = VZero
    /\ last = NoCall /\ hist = NoHist /\ ops = 0
    /\ electrolyzer = NewElectrolyzer
    /\ chem = DefaultChem
    /\ \/ /\ \E d \in BedRooms :
               room = [NewAirCompartment(FromInt(1)) EXCEPT !.densities = IVec(d)]
          /\ power \in ChargedSources
          /\ \E c \in CycleTimes :
               bed = NewAmineSwingBed(BedArguments(c[1], c[2], c[3]),
                                      FromInt(temperature))
       \/ /\ room = NewAirCompartment(FromInt(1))
          /\ power = NewPowerSource
          /\ bed = NewAmineSwingBed(BedArguments(LongCycleTimes[1], LongCycleTimes[2],
                                                 LongCycleTimes[3]),
                                    FromInt(temperature))

\* the calls made on the bed so far, counted up to MaxPlantCalls
CountCall == IF ops < MaxPlantCalls THEN ops + 1 ELSE ops

\* the call record of a bed.update(dt); `odd` tells a call from the one before
UpdateCalled(dt) ==
    /\ err = "none"
    /\ last' = [PlantCall("update", "bed", 0, "none", 0, 0)
                  EXCEPT !.amount = dt, !.odd = ~last.odd]

\* a caller's bed.update(dt)
BedUpdate(dt) ==
    /\ UpdateCalled(dt)
    /\ \E r \in {bed_update(bed, room, power, temperature, dt)} :
           /\ bed' = r.bed
           /\ room' = r.parent
           /\ power' = r.power
           /\ err' = r.err
    /\ ops' = CountCall
    /\ UNCHANGED <<temperature, graphVars, atm, tank, source, hist,
                   electrolyzer, chem>>

\* a caller's bed.collect(amount_co2_kg, amount_h2o_kg, dt, mode)
BedCollect(amount_co2_kg, amount_h2o_kg, dt, mode) ==
    /\ err = "none"
    /\ LET r == bed_collect(bed, FromInt(amount_co2_kg), FromInt(amount_h2o_kg),
                            FromInt(dt), mode)
       IN  /\ bed' = r.obj
           /\ err' = r.err
           /\ last' = [PlantCall("collect", "bed", dt, mode, amount_co2_kg,
                                 amount_h2o_kg)
                          EXCEPT !.val = r.ret[1], !.val2 = r.ret[2]]
    /\ ops' = CountCall
    /\ UNCHANGED <<temperature, graphVars, vesselVars, hist, power,
                   electrolyzer, chem>>

\* an update with a step of whole seconds or years
SteadyUpdate == \E dt \in StepsFor(bed) : BedUpdate(dt)

\* an update with a step of nanoseconds, once years have accumulated
ShortUpdate ==
    /\ RLe(LongDt, bed.time_in_current_phase_s)
    /\ BedUpdate(ShortDt)

NextBed ==
    \/ SteadyUpdate
    \/ ShortUpdate
    \/ \E dt \in NonPositiveDts : BedUpdate(dt)
    \/ \E c \in BedRequests, m \in CollectModes : BedCollect(c, 1, 2, m)

\* the bed under callers that keep calling update with a positive dt
SpecBed ==
    /\ InitBed
    /\ [][NextBed]_vars
    /\ WF_last(\E dt \in StepsFor(bed) \cup {ShortDt} : UpdateCalled(dt))

\* as InitBed, with an electrolyzer whose power_draw its owner has set
InitCollect ==
    /\ temperature = 1
    /\ IdleGraph
    /\ err = "none"
    /\ room = [NewAirCompartment(FromInt(1)) EXCEPT !.densities = IVec(<<1, 16, 0, 8>>)]
    /\ atm = NewAtmosphere(1)
    /\ tank = NewAirTank(FromInt(1), FromInt(12))
    /\ source = VZero
    /\ last = NoCall /\ hist = NoHist /\ ops = 0
    /\ power \in ChargedSources
    /\ electrolyzer = [NewElectrolyzer EXCEPT !.power_draw = FromInt(2)]
    /\ bed = NewAmineSwingBed(BedArguments(1, 1, 1), FromInt(temperature))
    /\ chem = DefaultChem

\* a caller's electrolyzer.update(dt)
ElectrolyzerUpdate(dt) ==
    /\ err = "none" /\ ops < MaxPlantCalls
    /\ LET r == electrolyzer_update(electrolyzer, power, FromInt(dt))
       IN  /\ electrolyzer' = r.obj
           /\ power' = r.power
    /\ last' = PlantCall("update", "electrolyzer", dt, "none", 0, 0)
    /\ ops' = ops + 1
    /\ UNCHANGED <<temperature, graphVars, vesselVars, err, hist, bed, chem>>

\* a caller's electrolyzer.add_water(h2o_amount, dt, mode=mode)
ElectrolyzerAddWater(h2o_amount, dt, mode) ==
    /\ err = "none" /\ ops < MaxPlantCalls
    /\ electrolyzer' = electrolyzer_add_water(electrolyzer, FromInt(h2o_amount),
                                              FromInt(dt), mode)
    /\ last' = PlantCall("add_water", "electrolyzer", dt, mode, h2o_amount, 0)
    /\ ops' = ops + 1
    /\ UNCHANGED <<temperature, graphVars, vesselVars, err, hist, power, bed, chem>>

\* a caller's electrolyzer.collect(o2_amount, h2_amount, dt, mode=mode)
ElectrolyzerCollect(o2_amount, h2_amount, dt, mode) ==
    /\ err = "none" /\ ops < MaxPlantCalls
    /\ LET r == electrolyzer_collect(electrolyzer, FromInt(o2_amount),
                                     FromInt(h2_amount), FromInt(dt), mode)
       IN  /\ electrolyzer' = r.obj
           /\ err' = r.err
           /\ last' = [PlantCall("collect", "electrolyzer", dt, mode, o2_amount,
                                 h2_amount)
                          EXCEPT !.val = r.ret[1], !.val2 = r.ret[2]]
    /\ ops' = ops + 1
    /\ UNCHANGED <<temperature, graphVars, vesselVars, hist, power, bed, chem>>

NextCollect ==
    \/ ops < MaxPlantCalls /\ \E dt \in PositiveDts : BedUpdate(dt)
    \/ /\ ops < MaxPlantCalls
       /\ \E c \in BedRequests, dt \in Dts, m \in CollectModes : BedCollect(c, 1, dt, m)
    \/ \E dt \in Dts : ElectrolyzerUpdate(dt)
    \/ \E dt \in Dts, m \in CollectModes : ElectrolyzerAddWater(1, dt, m)
    \/ \E a \in ElectrolyzerRequests, dt \in Dts, m \in CollectModes :
          ElectrolyzerCollect(a, 1, dt, m)

SpecCollect == InitCollect /\ [][NextCollect]_vars

-----------------------------------------------------------------------------
(* Specification of the power source and its callers *)

PowerInputs == {2}
PowerDraws == {1, 3}

InitPower ==
    /\ temperature = 1
    /\ IdleGraph
    /\ IdleVessels
    /\ err = "none"
    /\ last = NoCall /\ hist = NoHist /\ ops = 0
    /\ IdlePlant

\* a caller's power_source.charge(power, dt)
PowerCharge(pw, dt) ==
    /\ err = "none" /\ ops < MaxPlantCalls
    /\ power' = power_charge(power, FromInt(pw), FromInt(dt))
    /\ last' = PlantCall("charge", "power", dt, "none", pw, 0)
    /\ ops' = ops + 1
    /\ UNCHANGED <<temperature, graphVars, vesselVars, err, hist,
                   electrolyzer, bed, chem>>

\* a caller's power_source.heat(power, dt)
PowerHeat(pw, dt) ==
    /\ err = "none" /\ ops < MaxPlantCalls
    /\ power' = power_heat(power, FromInt(pw), FromInt(dt))
    /\ last' = PlantCall("heat", "power", dt, "none", pw, 0)
    /\ ops' = ops + 1
    /\ UNCHANGED <<temperature, graphVars, vesselVars, err, hist,
                   electrolyzer, bed, chem>>

\* a caller's power_source.consume_electricity(draw, dt, mode=mode)
ConsumeElectricity(draw, dt, mode) ==
    /\ err = "none" /\ ops < MaxPlantCalls
    /\ LET r == power_consume_electricity(power, FromInt(draw), FromInt(dt), mode)
       IN  /\ power' = r.obj
           /\ last' = [PlantCall("consume_electricity", "power", dt, mode, draw, 0)
                          EXCEPT !.val = r.ret]
    /\ ops' = ops + 1
    /\ UNCHANGED <<temperature, graphVars, vesselVars, err, hist,
                   electrolyzer, bed, chem>>

\* a caller's power_source.consume_heat(draw, dt, mode=mode)
ConsumeHeat(draw, dt, mode) ==
    /\ err = "none" /\ ops < MaxPlantCalls
    /\ LET r == power_consume_heat(power, FromInt(draw), FromInt(dt), mode)
       IN  /\ power' = r.obj
           /\ last' = [PlantCall("consume_heat", "power", dt, mode, draw, 0)
                          EXCEPT !.val = r.ret]
    /\ ops' = ops + 1
    /\ UNCHANGED <<temperature, graphVars, vesselVars, err, hist,
                   electrolyzer, bed, chem>>

NextPower ==
    \/ \E pw \in PowerInputs, dt \in Dts : PowerCharge(pw, dt)
    \/ \E pw \in PowerInputs, dt \in Dts : PowerHeat(pw, dt)
    \/ \E d \in PowerDraws, dt \in Dts, m \in PowerModes : ConsumeElectricity(d, dt, m)
    \/ \E d \in PowerDraws, dt \in Dts, m \in PowerModes : ConsumeHeat(d, dt, m)

SpecPower == InitPower /\ [][NextPower]_vars

-----------------------------------------------------------------------------
(* Claims about the graph and the valve *)

\* mass of the two species in the two compartments of valve v
PairMass(v, cs) ==
    <<cs[v.compartment1].o2_density * cs[v.compartment1].volume
        + cs[v.compartment2].o2_density * cs[v.compartment2].volume,
      cs[v.compartment1].co2_density * cs[v.compartment1].volume
        + cs[v.compartment2].co2_density * cs[v.compartment2].volume>>

Endpoints(v, cs) == <<cs[valve[v].compartment1], cs[valve[v].compartment2]>>

\* C3: while a valve is and stays CLOSED, every step of a tick other than
\* the apply step of another valve leaves the two compartments it connects
\* as they were, also when the valve holds a nonzero flux.
C3_ClosedValveInert ==
    [][\A v \in ValveIds :
          (~valve[v].is_open /\ ~valve'[v].is_open /\ ~(pc = "apply" /\ idx # v))
              => Endpoints(v, comp') = Endpoints(v, comp)]_vars

\* C3 witness: a closed valve of nonzero closed area holds a nonzero flux and
\* its apply step has run
C3_Witness ==
    \E v \in ValveIds :
        /\ ~valve[v].is_open /\ valve[v].closed_area # 0
        /\ valve[v].o2_flux # 0
        /\ applied[v] = 1
        /\ Endpoints(v, comp)[1].o2_density # Endpoints(v, comp)[2].o2_density

FluxOf(v) == <<v.o2_flux, v.co2_flux>>

\* C4: in a tick every compute_flux runs before any apply_flux; during the
\* compute phase the compartments are the pre-tick ones; when the apply phase
\* starts every flux is the one compute_flux gives on the pre-tick densities
\* and temperature; each valve's apply_flux runs exactly once, in order.
C4_TwoPhase ==
    /\ pc = "compute" =>
          /\ comp = snap
          /\ \A v \in ValveIds :
                applied[v] = 0 /\ computed[v] = (IF v < idx THEN 1 ELSE 0)
    /\ pc = "apply" =>
          \A v \in ValveIds :
             /\ computed[v] = 1
             /\ applied[v] = (IF v < idx THEN 1 ELSE 0)
             /\ compute_flux(valve[v], temperature, snap).err = "none"
             /\ FluxOf(compute_flux(valve[v], temperature, snap).valve)
                   = FluxOf(valve[v])
    /\ (pc = "idle" /\ ticks > 0 /\ err = "none") =>
          \A v \in ValveIds : computed[v] = 1 /\ applied[v] = 1
    /\ err # "none" => (comp = snap /\ \A v \in ValveIds : applied[v] = 0)

\* C4 witness: a finished tick in which both valves were open and moved gas
C4_Witness ==
    /\ pc = "idle" /\ ticks > 0 /\ err = "none"
    /\ \A v \in ValveIds :
          valve[v].is_open /\ valve[v].o2_flux # 0 /\ applied[v] = 1
    /\ comp # snap

\* the two compartments of valve v in the compartment array cs
Side1(v, cs) == cs[valve[v].compartment1]
Side2(v, cs) == cs[valve[v].compartment2]

\* every species is present on both sides of valve v
Present(v, cs) ==
    /\ Side1(v, cs).o2_density > 0 /\ Side2(v, cs).o2_density > 0
    /\ Side1(v, cs).co2_density > 0 /\ Side2(v, cs).co2_density > 0

\* C12: for a species whose density differs across an open valve of nonzero
\* area (at a positive temperature, every species present on both sides),
\* compute_flux completes and stores a flux that is positive exactly when
\* compartment1 is the denser side; and the apply step that follows lowers
\* the species' density in the denser compartment and raises it in the
\* other (O2 and CO2 are the species the valve tracks).
C12_FluxDirection ==
    [][/\ (/\ pc = "compute" /\ valve[idx].is_open /\ get_area(valve[idx]) # 0
           /\ temperature > 0 /\ Present(idx, comp)) =>
            /\ Side1(idx, comp).o2_density # Side2(idx, comp).o2_density =>
                  /\ err' = "none"
                  /\ valve'[idx].o2_flux > 0
                        <=> Side1(idx, comp).o2_density > Side2(idx, comp).o2_density
            /\ Side1(idx, comp).co2_density # Side2(idx, comp).co2_density =>
                  /\ err' = "none"
                  /\ valve'[idx].co2_flux > 0
                        <=> Side1(idx, comp).co2_density > Side2(idx, comp).co2_density
       /\ (pc = "apply" /\ valve[idx].is_open /\ get_area(valve[idx]) # 0) =>
            /\ Side1(idx, snap).o2_density > Side2(idx, snap).o2_density =>
                  /\ Side1(idx, comp').o2_density < Side1(idx, comp).o2_density
                  /\ Side2(idx, comp').o2_density > Side2(idx, comp).o2_density
            /\ Side1(idx, snap).o2_density < Side2(idx, snap).o2_density =>
                  /\ Side1(idx, comp').o2_density > Side1(idx, comp).o2_density
                  /\ Side2(idx, comp').o2_density < Side2(idx, comp).o2_density
            /\ Side1(idx, snap).co2_density > Side2(idx, snap).co2_density =>
                  /\ Side1(idx, comp').co2_density < Side1(idx, comp).co2_density
                  /\ Side2(idx, comp').co2_density > Side2(idx, comp).co2_density
            /\ Side1(idx, snap).co2_density < Side2(idx, snap).co2_density =>
                  /\ Side1(idx, comp').co2_density > Side1(idx, comp).co2_density
                  /\ Side2(idx, comp').co2_density < Side2(idx, comp).co2_density
      ]_vars

\* the orders in which the apply loop could visit the valves
Orders ==
    {p \in [1..NumValves -> ValveIds] : \A i, j \in 1..NumValves : p[i] = p[j] => i = j}

C18_EqualDensityZeroFlux ==
    [][/\ (/\ pc = "compute" /\ get_area(valve[idx]) # 0 /\ temperature > 0
           /\ Side1(idx, comp).o2_density = Side2(idx, comp).o2_density
           /\ Side1(idx, comp).co2_density = Side2(idx, comp).co2_density) =>
            /\ err' = "none"
            /\ valve'[idx].o2_flux = 0 /\ valve'[idx].co2_flux = 0
       /\ (/\ pc = "apply" /\ get_area(valve[idx]) # 0
           /\ Side1(idx, snap).o2_density = Side2(idx, snap).o2_density
           /\ Side1(idx, snap).co2_density = Side2(idx, snap).co2_density) =>
            /\ Side1(idx, comp') = Side1(idx, comp)
            /\ Side2(idx, comp') = Side2(idx, comp)
      ]_vars

NonNegative(c) == c.o2_density >= 0 /\ c.co2_density >= 0

\* a species is absent on one side of valve v and present on the other
OneSided(v, cs) ==
    \/ Side1(v, cs).o2_density = 0 /\ Side2(v, cs).o2_density > 0
    \/ Side1(v, cs).o2_density > 0 /\ Side2(v, cs).o2_density = 0
    \/ Side1(v, cs).co2_density = 0 /\ Side2(v, cs).co2_density > 0
    \/ Side1(v, cs).co2_density > 0 /\ Side2(v, cs).co2_density = 0

\* C19: with non-negative densities on both sides of a valve, a species
\* being absent on one side and present on the other, compute_flux (at a
\* positive temperature) completes without raising.
C19_ComputeNeverRaises ==
    [][(/\ pc = "compute" /\ temperature > 0
        /\ NonNegative(Side1(idx, comp)) /\ NonNegative(Side2(idx, comp))
        /\ OneSided(idx, comp))
          => err' = "none"]_vars

\* the O2 density difference across valve 1
O2Gap(cs) == Side1(1, cs).o2_density - Side2(1, cs).o2_density

\* two compartments of equal volume joined by the open valve 1 alone, at a
\* positive temperature, with a gap in O2 only
TwoRoomSetup ==
    /\ temperature > 0
    /\ valve[1].is_open /\ get_area(valve[1]) # 0
    /\ get_area(valve[2]) = 0
    /\ Side1(1, snap).volume = Side2(1, snap).volume
    /\ Side1(1, snap).co2_density = Side2(1, snap).co2_density
    /\ Side1(1, snap).o2_density > 0 /\ Side2(1, snap).o2_density > 0
    /\ O2Gap(snap) # 0

\* C20: in that setup every tick completes, and it leaves the absolute
\* density difference strictly smaller than it found it, without changing
\* the sign of the difference.
C20_Equilibrates ==
    [][TwoRoomSetup =>
          /\ pc = "compute" => err' = "none"
          /\ (pc = "apply" /\ idx = 1) =>
                /\ Abs(O2Gap(comp')) < Abs(O2Gap(comp))
                /\ O2Gap(comp') * O2Gap(comp) >= 0
      ]_vars

-----------------------------------------------------------------------------
(* Claims about the compartments *)

\* C5: whatever apply_flux and add_gas calls an Atmosphere has received, its
\* getters report the densities and pressures they reported at construction,
\* and no call on it has raised.
C5_AtmosphereImmutable ==
    /\ AtmReport(atm) = hist.report0
    /\ last.target = "atmosphere" => err = "none"

\* C5 witness: a second call on the Atmosphere, an apply_flux in density mode
\* with a negative component, has returned
C5_Witness ==
    /\ ops >= 2
    /\ last.target = "atmosphere" /\ last.op = "apply_flux"
    /\ last.mode = "density"
    /\ \E i \in Species : RLt(last.arg[i], Zero)

\* C6: a call of apply_flux or add_gas that takes a species density below
\* zero ends in the assertion failure.
C6_FatalGuard == last.would_neg => err = "AssertionError"

\* C7: no density of the compartment is negative in any state, and a call
\* that ended in the assertion failure left the densities it found.
C7_NeverNegative ==
    /\ VNonNeg(room.densities)
    /\ err = "AssertionError" => room.densities = last.pre

-----------------------------------------------------------------------------
(* Claims about the tank *)

\* the tank as the last call found it
PreTank == [tank EXCEPT !.densities = last.pre, !.flux = last.pre_flux]

\* C2: a fill_to_capacity call made while the projected pressure was at most
\* max_pressure leaves the projected pressure, temperature x sum R_i x
\* (density_i + ledger_i x dt), at most max_pressure.
C2_CapacityBound ==
    (/\ last.op = "fill_to_capacity"
     /\ RLe(tank_projected_pressure(PreTank, FromInt(last.dt), temperature),
            tank.max_pressure))
    => RLe(tank_projected_pressure(tank, FromInt(last.dt), temperature),
           tank.max_pressure)

C9_ExactFill ==
    /\ (last.op = "fill_to_capacity" /\ last.exit = "filled") =>
          /\ tank_projected_pressure(tank, FromInt(last.dt), temperature)
                = tank.max_pressure
          /\ source = VSub(last.pre_source, last.ret)
          /\ \A i \in Species :
                RMul(last.ret[i], VSum(last.pre_source))
                   = RMul(last.pre_source[i], VSum(last.ret))
    /\ (last.op = "fill_to_capacity" /\ last.exit = "drained") =>
          /\ last.ret = last.pre_source
          /\ source = VZero

\* C10: a fill_to_capacity call that directly follows one with the same dt
\* that was not limited by the source returns the zero vector and changes
\* neither the tank nor the source.
C10_SecondFillEmpty ==
    (/\ last.op = "fill_to_capacity" /\ last.prev_op = "fill_to_capacity"
     /\ last.prev_exit \in {"filled", "full"}
     /\ last.prev_dt = last.dt)
    => /\ last.ret = VZero
       /\ tank = PreTank
       /\ source = last.pre_source

\* the three cases of fill_to_capacity, read off the state the call found
FillCaseFull ==
    RLe(RDiv(tank.max_pressure, FromInt(temperature)),
        tank_projected_S(PreTank, FromInt(last.dt)))

FillCaseNoSource == RLe(VSum(last.pre_source), Zero)

FillCaseNoPressure ==
    /\ VSum(last.pre_source) # Zero
    /\ RLe(VDot(GAS_CONSTANTS,
                [i \in Species |-> RDiv(last.pre_source[i], VSum(last.pre_source))]),
           Zero)

FillNothingDone ==
    /\ err = "none"
    /\ last.ret = VZero
    /\ tank = PreTank
    /\ source = last.pre_source

-----------------------------------------------------------------------------
(* Claims about a valve between filtered compartments *)

\* a species is blocked when the filter mask of either side is false for it
Blocked(i) == ~room.filter[i] \/ ~tank.filter[i]

DuctFlux(i) == IF i = 1 THEN valve[1].o2_flux ELSE valve[1].co2_flux

\* C13: a species blocked by the filter mask of either compartment of a
\* valve has zero flux after compute_flux, which completes, and the valve's
\* apply_flux leaves its density in both compartments as it was, whatever
\* the density gap and the valve state.
C13_FilterBlocks ==
    /\ last.op = "compute_flux" =>
          \A i \in {1, 2} : Blocked(i) => (err = "none" /\ DuctFlux(i) = 0)
    /\ last.op = "valve_apply_flux" =>
          \A i \in {1, 2} :
             Blocked(i) => /\ room.densities[i] = last.pre[i]
                           /\ tank.densities[i] = last.pre2[i]

-----------------------------------------------------------------------------
(* Claims about the valve's and the door's state *)

ValveOps == {"open", "close", "set_state", "is_open"}

\* C15: a valve is CLOSED after construction; it is OPEN after open(),
\* CLOSED after close(), OPEN after set_state(b) exactly when b is true;
\* is_open() returns the current state; none of these calls changes the
\* stored flux, the areas or the two compartments.
C15_ValveStates ==
    /\ last.op = "none" => ~valve_is_open(valve[1])
    /\ last.target = "valve" =>
          /\ last.op = "open" => valve_is_open(valve[1])
          /\ last.op = "close" => ~valve_is_open(valve[1])
          /\ last.op = "set_state" => (valve_is_open(valve[1]) <=> last.state)
          /\ last.op = "is_open" =>
                /\ last.answer <=> valve_is_open(valve[1])
                /\ valve[1] = last.pre_valve
          /\ last.op \in ValveOps =>
                /\ valve[1] = [last.pre_valve EXCEPT !.is_open = valve[1].is_open]
                /\ room.densities = last.pre
                /\ tank.densities = last.pre2
                /\ err = "none"

\* C15 witness: set_state(False) has closed an open valve that holds a
\* nonzero flux
C15_Witness ==
    /\ last.target = "valve" /\ last.op = "set_state" /\ ~last.state
    /\ last.pre_valve.is_open
    /\ valve[1].o2_flux # 0

DoorMoves == {"open", "close"}

\* C16: open() and close() on a locked Door leave its OPEN/CLOSED state and
\* its lock flag as they were; on a Door that is not locked, as it is right
\* after unlock(), open() leaves it OPEN and close() leaves it CLOSED.
C16_LockedDoorInert ==
    (last.target = "door" /\ last.op \in DoorMoves) =>
        /\ last.pre_valve.is_locked => valve[2] = last.pre_valve
        /\ (~last.pre_valve.is_locked \/ last.prev_op = "unlock") =>
              /\ valve[2].is_open <=> (last.op = "open")
              /\ ~valve[2].is_locked

\* C16 witness: open() was called on a locked, closed door
C16_Witness ==
    /\ last.target = "door" /\ last.op = "open"
    /\ last.pre_valve.is_locked /\ ~last.pre_valve.is_open
    /\ last.prev_op = "lock"

-----------------------------------------------------------------------------
(* Claims about the tank's ledger *)

TankAsCompartment ==
    compartment_apply_flux(PreTank, last.arg, FromInt(last.dt), last.mode)

\* C24: Tank.apply_flux(f, dt, mode) changes the densities as
\* Compartment.apply_flux does, with the same non-negativity check, and adds
\* f itself to the ledger; add_gas on a tank leaves the ledger unchanged.
C24_TankRefinesCompartment ==
    /\ (last.op = "apply_flux" /\ last.target = "tank") =>
          /\ tank.densities = TankAsCompartment.obj.densities
          /\ err = TankAsCompartment.err
          /\ tank.flux = VAdd(last.pre_flux, last.arg)
    /\ (last.op = "add_gas" /\ last.target = "tank") =>
          tank.flux = last.pre_flux

\* C24, amended: as C24, but what the ledger receives is the density rate
\* of the call: f in mode "density", f / volume in any other mode.
C24_TankRefinesCompartmentRate ==
    /\ (last.op = "apply_flux" /\ last.target = "tank") =>
          /\ tank.densities = TankAsCompartment.obj.densities
          /\ err = TankAsCompartment.err
          /\ tank.flux =
                VAdd(last.pre_flux,
                     IF last.mode = "density" THEN last.arg
                     ELSE VDivVolume(last.arg, tank.volume))
    /\ (last.op = "add_gas" /\ last.target = "tank") =>
          tank.flux = last.pre_flux

\* C24 witness: a mode "mass" apply_flux with dt 2 on a tank of volume 2
\* that already had a ledger entry
C24_Witness ==
    /\ last.op = "apply_flux" /\ last.target = "tank"
    /\ last.mode = "mass" /\ last.dt = 2
    /\ tank.volume = FromInt(2)
    /\ last.pre_flux # VZero
    /\ err = "none"

-----------------------------------------------------------------------------
(* Claims about a valve of zero area *)

\* a closed Door that is not airtight, put where valve v is
ClosedLeakyDoor(v, dims) ==
    door_close(NewDoor(FALSE, dims, valve[v].compartment1, valve[v].compartment2))

\* C23: whenever get_area() is 0, as it is for a closed Door that is not
\* airtight, compute_flux stores 0 as the flux of every species, raises
\* nothing and changes no compartment, whatever the densities.
C23_ZeroAreaZeroFlux ==
    [][(computed'[idx] = computed[idx] + 1) =>
          /\ get_area(valve[idx]) = 0 =>
                /\ valve'[idx].o2_flux = 0 /\ valve'[idx].co2_flux = 0
                /\ err' = "none"
                /\ comp' = comp
          /\ \A dims \in DoorDims :
                LET r == compute_flux(ClosedLeakyDoor(idx, dims), temperature, comp)
                IN  /\ get_area(ClosedLeakyDoor(idx, dims)) = 0
                    /\ r.valve.o2_flux = 0 /\ r.valve.co2_flux = 0
                    /\ r.err = "none"]_vars

\* C23 witness: at a positive temperature compute_flux has run on valve 1,
\* of area 0, with O2 absent on one side and present on the other, and the
\* loop has gone on to valve 2
C23_Witness ==
    /\ pc = "compute" /\ idx = 2 /\ computed[1] = 1
    /\ get_area(valve[1]) = 0
    /\ comp[1].o2_density = 0 /\ comp[2].o2_density > 0
    /\ temperature > 0
    /\ err = "none"

-----------------------------------------------------------------------------
(* Claims about the lock of a door *)

\* C28: after any sequence of open(), close(), set_state(b), lock() and
\* unlock() calls on a Door, a locked door is not OPEN.
C28_LockedNeverOpen == valve[2].is_locked => ~valve[2].is_open

-----------------------------------------------------------------------------
(* Claims about the power source *)

\* C29: for a non-negative draw, consume_electricity and consume_heat, in
\* mode "power" and in mode "energy", return at most the requested energy
\* (draw x dt in mode "power", draw in mode "energy") and at most the energy
\* stored before the call, and subtract what they return, so that neither
\* stored energy goes negative.
C29_ConsumeBounded ==
    (/\ last.target = "power"
     /\ last.op \in {"consume_electricity", "consume_heat"}
     /\ RLe(Zero, last.amount))
    => LET requested == IF last.mode = "power"
                        THEN RMul(last.amount, FromInt(last.dt))
                        ELSE last.amount
           before == IF last.op = "consume_electricity"
                     THEN last.pre_power.electrical_energy
                     ELSE last.pre_power.thermal_energy
           after == IF last.op = "consume_electricity"
                    THEN power.electrical_energy
                    ELSE power.thermal_energy
       IN  /\ RLe(last.val, requested)
           /\ RLe(last.val, before)
           /\ after = RSub(before, last.val)
           /\ RLe(Zero, power.electrical_energy)
           /\ RLe(Zero, power.thermal_energy)

-----------------------------------------------------------------------------
(* Claims about the specific-heat lookup *)

\* the table segment (its lower entry, 1-based) that serves temperature t:
\* the first below the table, the last above it, the enclosing one inside
SegmentFor(g, t) ==
    IF t < g.temps[1] THEN 1
    ELSE IF t > g.temps[Len(g.temps)] THEN Len(g.temps) - 1
    ELSE CHOOSE k \in 1..(Len(g.temps) - 1) :
            /\ g.temps[k] <= t /\ t <= g.temps[k + 1]
            /\ \A j \in 1..(k - 1) : ~(g.temps[j] <= t /\ t <= g.temps[j + 1])

\* the straight line through the two entries of segment k, at temperature t
OnSegment(g, k, t) ==
    RAdd(FromInt(g.specific_heats[k]),
         RDiv(FromInt((g.specific_heats[k + 1] - g.specific_heats[k])
                         * (t - g.temps[k])),
              FromInt(g.temps[k + 1] - g.temps[k])))

\* C26: the specific-heat lookup returns a value for every temperature,
\* interpolated between the neighbouring entries inside the table and
\* extrapolated from the nearest segment below the first and above the last
\* entry, and raises nothing.
C26_LookupTotal ==
    last.op = "specific_heat_capacity" =>
       /\ err = "none"
       /\ last.val = OnSegment(chem[last.species], 
                               SegmentFor(chem[last.species], last.amount[1]),
                               last.amount[1])

-----------------------------------------------------------------------------
(* Claims about the temperature update *)

\* the temperature old lies inside the table of every species
InsideTables(old) ==
    \A i \in Species :
       /\ RLe(FromInt(chem[i].temps[1]), old)
       /\ RLe(old, FromInt(chem[i].temps[Len(chem[i].temps)]))

\* sum over all compartments and species of mass_i x specific_heat_i(old),
\* for a whole temperature old
HeatCapacityOfAir(old) ==
    VDot([i \in Species |-> OnSegment(chem[i], SegmentFor(chem[i], old), old)],
         VAdd(VScale(last.pre, room.volume), VScale(last.pre2, tank.volume)))

\* C27: one temperature update writes the temperature once, to
\* old x heat_loss_rate^dt + Q_in / sum(mass_i x specific_heat_i(old)), Q_in
\* being heat x dt in mode "power" and heat in any other mode, and changes
\* no compartment density.  (Stated for an old temperature inside every
\* species' table and a nonzero total mass.)
C27_TemperatureUpdate ==
    (/\ last.op = "_update_temperature"
     /\ InsideTables(last.pre_temperature)
     /\ HeatCapacityOfAir(last.pre_temperature[1]) # Zero)
    => /\ err = "none"
       /\ temperature =
             RAdd(RMul(last.pre_temperature, RPow(heat_loss_rate, last.dt)),
                  RDiv(IF last.mode = "power"
                       THEN RMul(last.amount, FromInt(last.dt))
                       ELSE last.amount,
                       HeatCapacityOfAir(last.pre_temperature[1])))
       /\ room.densities = last.pre
       /\ tank.densities = last.pre2

-----------------------------------------------------------------------------
(* C22: collect never hands out more than is buffered *)

BufferOf(target, e, b) ==
    IF target = "electrolyzer"
    THEN <<e.o2_mass_released, e.h2_mass_released>>
    ELSE <<b.mass_co2_ready_for_collection_kg, b.mass_h2o_ready_for_collection_kg>>

\* C22: after a collect call of the bed or of the electrolyzer, in mode
\* "flux" or "amount", on buffers that were non-negative, each returned
\* amount is at most what was buffered before the call and each buffered
\* mass is still non-negative.
C22_CollectCapped ==
    (/\ last.op = "collect"
     /\ last.mode \in CollectModes
     /\ \A k \in 1..2 :
           RLe(Zero, BufferOf(last.target, last.pre_electrolyzer, last.pre_bed)[k]))
    => /\ err = "none"
       /\ RLe(last.val, BufferOf(last.target, last.pre_electrolyzer, last.pre_bed)[1])
       /\ RLe(last.val2, BufferOf(last.target, last.pre_electrolyzer, last.pre_bed)[2])
       /\ \A k \in 1..2 : RLe(Zero, BufferOf(last.target, electrolyzer, bed)[k])

\* the same for the bed alone, whose collect caps what it removes
C22_BedCollectCapped ==
    (last.target = "bed") => C22_CollectCapped

-----------------------------------------------------------------------------
(* C30: the phase cycle of the amine swing bed *)

NextPhase(phase) ==
    CASE phase = "adsorption" -> "desorption"
      [] phase = "desorption" -> "cooling"
      [] phase = "cooling" -> "adsorption"

CycleTimeOf(b) ==
    CASE b.current_phase = "adsorption" -> b.args.adsorption_cycle_time_s
      [] b.current_phase = "desorption" -> b.args.desorption_cycle_time_s
      [] b.current_phase = "cooling" -> b.args.cooling_cycle_time_s

\* what an update(dt) call does to the phase and to the time in the phase
UpdateKeepsCycle ==
    (last.op = "update" /\ last.target = "bed") =>
       LET b == last.pre_bed
           accumulated == float_add(b.time_in_current_phase_s, last.amount)
       IN  /\ err = "none"
           /\ IF RLe(last.amount, Zero)
              THEN /\ bed = b
                   /\ room.densities = last.pre
                   /\ power = last.pre_power
              ELSE IF RLe(FromInt(CycleTimeOf(b)), accumulated)
              THEN /\ bed.current_phase = NextPhase(b.current_phase)
                   /\ bed.time_in_current_phase_s = Zero
              ELSE /\ bed.current_phase = b.current_phase
                   /\ bed.time_in_current_phase_s = accumulated

\* the phase changes only in an update call with a positive dt, and only to
\* the next phase
PhaseOnlyAdvances ==
    (bed'.current_phase # bed.current_phase) =>
       /\ last'.op = "update" /\ last'.target = "bed" /\ RLt(Zero, last'.amount)
       /\ bed'.current_phase = NextPhase(bed.current_phase)
       /\ bed'.time_in_current_phase_s = Zero

\* every phase is entered again and again
EveryPhaseRecurs == \A phase \in Phases : []<>(bed.current_phase = phase)

\* C30 as stated: the phase only advances adsorption -> desorption ->
\* cooling -> adsorption; an update(dt) with positive dt changes the phase
\* exactly when the time accumulated in the phase reaches the phase's cycle
\* time, setting the time in the phase to 0, so at most one change happens
\* per update; an update with dt <= 0 changes nothing; and under repeated
\* updates with positive dt every phase is entered again and again.
C30_PhaseCycle ==
    /\ []UpdateKeepsCycle
    /\ [][PhaseOnlyAdvances]_vars
    /\ EveryPhaseRecurs

\* C30 amended: the same, with every phase entered again and again under
\* repeated updates whose dt is large enough for the time in the phase to
\* register it (here: whole seconds on cycles of seconds, years on cycles of
\* years).
C30_PhaseCycleSteady ==
    /\ []UpdateKeepsCycle
    /\ [][PhaseOnlyAdvances]_vars
    /\ ([]<><<\E dt \in StepsFor(bed) : UpdateCalled(dt)>>_last) => EveryPhaseRecurs

\* an update has just taken a bed that has desorbed gas from cooling back
\* to adsorption
C30_Witness ==
    /\ last.op = "update" /\ last.target = "bed"
    /\ last.pre_bed.current_phase = "cooling"
    /\ RLt(Zero, last.pre_bed.time_in_current_phase_s)
    /\ bed.current_phase = "adsorption"
    /\ RLt(Zero, bed.mass_co2_ready_for_collection_kg)

====
